---- MODULE Spec2Model ----
(***************************************************************************)
(* Model of the taskflow-api run orchestrator: the durable store (run row, *)
(* step rows, event log, cost ledger), the orchestrator's worker registry  *)
(* and per-run worker loop (plan -> monitor -> execute/reflect/finish),    *)
(* the executor's retry path, the monitor, the reflection service, the     *)
(* event broker and the SSE replay-then-tail consumer.                     *)
(*                                                                         *)
(* One run id is modelled.  A worker is an asyncio task; its steps are     *)
(* the code between two suspension points: the model calls, the backoff    *)
(* sleep, and the boundaries between graph nodes (the compiled LangGraph   *)
(* graph schedules every node as its own step).  USD amounts are integers  *)
(* in units of 1e-8 USD, the precision CostEstimator rounds to.            *)
(***************************************************************************)
EXTENDS Integers, Sequences, FiniteSets, TLC

VARIABLES
    cfg,      \* template graph, contracts and constraints the run is created with
    run,      \* store: the row of the run (status "absent" before create_run)
    steps,    \* store: node id -> step row (status "absent" when there is no row)
    events,   \* store: the event log of the run in (created_at, id) order
    ledger,   \* store: the cost ledger rows of the run
    tasks,    \* TaskflowOrchestrator._tasks[run_id]: 0 (no entry) or a worker slot
    wk,       \* worker slot -> [pc, st]: an asyncio task running _run_loop
    calls,    \* number of cancel / retry / restart interventions so far
    subs,     \* EventBroker._subscribers[run_id]: the subscriber queues
    sse       \* the _sse_stream consumer: [pc, todo, got]

vars == <<cfg, run, steps, events, ledger, tasks, wk, calls, subs, sse>>

\* ------------------------------------------------------------------ bounds

MaxWorkers == 2
MaxCalls == 2

\* ------------------------------------------------------- program constants

QueueMaxsize == 256
BackoffCap == 8
CheapPromptRate == 10
CheapCompletionRate == 20
DefaultPromptRate == 50
DefaultCompletionRate == 100
ExpensivePromptRate == 200
ExpensiveCompletionRate == 400
DefaultBudget == 200000000
DefaultMaxSteps == 30

Workers == 1..MaxWorkers

TerminalRunStatuses == {"completed", "failed", "canceled"}
IncompleteOnlyCreated == {"created"}

\* Repository.list_incomplete_runs: status IN ('created', 'running')
IncompleteRunStatuses == {"created", "running"}

\* ------------------------------------------------------------- templates

\* A template graph: nodes in declaration order (ids 1..n), depends_on per
\* node, the edges, and the per-node model_preference of the contracts.
\* Nothing validates depends_on: the second node of orphan names a node
\* the graph does not have.
Templates ==
    [ single |-> [n |-> 1, deps |-> <<{}>>, edges |-> {},
                  pref |-> <<"default">>],
      chain  |-> [n |-> 2, deps |-> <<{}, {1}>>, edges |-> {<<1, 2>>},
                  pref |-> <<"cheap", "default">>],
      pair   |-> [n |-> 2, deps |-> <<{}, {}>>, edges |-> {},
                  pref |-> <<"default", "expensive">>],
      default |-> [n |-> 3, deps |-> <<{}, {1}, {2}>>, edges |-> {<<1, 2>>, <<2, 3>>},
                  pref |-> <<"cheap", "default", "expensive">>],
      fork   |-> [n |-> 3, deps |-> <<{}, {1}, {}>>, edges |-> {<<1, 2>>},
                  pref |-> <<"default", "default", "cheap">>],
      orphan |-> [n |-> 2, deps |-> <<{}, {3}>>, edges |-> {},
                  pref |-> <<"default", "default">>],
      empty  |-> [n |-> 0, deps |-> <<>>, edges |-> {}, pref |-> <<>>] ]

Graph == Templates[cfg.template]
NodeIds == 1..Graph.n

\* ------------------------------------------------------------ small helpers

Last(s) == s[Len(s)]

Min(a, b) == IF a <= b THEN a ELSE b

RECURSIVE Pow2(_)
Pow2(k) == IF k <= 0 THEN 1 ELSE 2 * Pow2(k - 1)

NoRun == [status |-> "absent", cancel_requested |-> FALSE, dag |-> <<>>,
          diagnostics |-> <<>>, started |-> FALSE, ended |-> FALSE,
          total_prompt_tokens |-> 0, total_completion_tokens |-> 0,
          total_tokens |-> 0, total_usd |-> 0]

NoStep == [status |-> "absent", attempts |-> 0, max_retries |-> 0,
           error |-> "none", output |-> FALSE, cost |-> FALSE]

\* A DAG node's mutable part; upstream is last_error.details.upstream
Node(status, err, out) ==
    [status |-> status, last_error |-> err, last_output |-> out, upstream |-> <<>>]

Ev(type, node, attempt, status, reason) ==
    [type |-> type, node |-> node, attempt |-> attempt, status |-> status,
     reason |-> reason, backoff_s |-> 0]

\* ------------------------------------------------------------------ broker

QueuePutDropNewest(q, e) ==
    IF Len(q) >= QueueMaxsize THEN q ELSE Append(q, e)

\* EventBroker.publish, for one subscriber queue: drop the oldest on a full queue.
QueuePut(q, e) ==
    IF Len(q) >= QueueMaxsize THEN Append(Tail(q), e) ELSE Append(q, e)

RECURSIVE PublishIds(_, _, _)
PublishIds(qs, first, count) ==
    IF count = 0 THEN qs
    ELSE PublishIds([i \in DOMAIN qs |-> QueuePut(qs[i], first)], first + 1, count - 1)

\* a publish that waits for room, as await queue.put(event) would
EmitEventsBlocking(evs) ==
    /\ \A i \in DOMAIN subs : Len(subs[i]) + Len(evs) <= QueueMaxsize
    /\ events' = events \o evs
    /\ subs' = PublishIds(subs, Len(events) + 1, Len(evs))

\* a publish of events that create_event never stored
EmitEventsUnstored(evs) ==
    /\ events' = events
    /\ subs' = PublishIds(subs, Len(events) + 1, Len(evs))

\* TaskflowOrchestrator._emit_event for a batch of events emitted by one step
\* with no suspension point between them: create_event, then publish.
EmitEvents(evs) ==
    /\ events' = events \o evs
    /\ subs' = PublishIds(subs, Len(events) + 1, Len(evs))

\* ------------------------------------------------------------ cost and router

\* ModelRouter.for_workload
ForWorkload(workload) ==
    IF workload = "planner" THEN "cheap"
    ELSE IF workload \in {"reflection", "synthesis"} THEN "expensive"
    ELSE "default"

ForStepIgnoresPreference(pref, workload) == ForWorkload(workload)

\* ModelRouter.for_step
ForStep(pref, workload) ==
    IF pref \in {"cheap", "expensive", "default"} THEN pref ELSE ForWorkload(workload)

\* CostEstimator._rates_for_model, per token in 1e-8 USD
RatesForModel(model) ==
    IF model = "cheap" THEN <<CheapPromptRate, CheapCompletionRate>>
    ELSE IF model = "expensive" THEN <<ExpensivePromptRate, ExpensiveCompletionRate>>
    ELSE <<DefaultPromptRate, DefaultCompletionRate>>

EstimateSkewed(model, p, c) ==
    [prompt_tokens |-> p, completion_tokens |-> c, total_tokens |-> p,
     usd |-> p * RatesForModel(model)[1] + c * RatesForModel(model)[2], model |-> model]

\* CostEstimator.estimate
Estimate(model, p, c) ==
    [prompt_tokens |-> p, completion_tokens |-> c, total_tokens |-> p + c,
     usd |-> p * RatesForModel(model)[1] + c * RatesForModel(model)[2], model |-> model]

\* an increment that leaves the token totals as they were
IncrementRunTotalsUsdOnly(r, cost) ==
    IF r.status = "absent" THEN r
    ELSE [r EXCEPT !.total_usd = @ + cost.usd]

\* Repository.increment_run_totals: one UPDATE statement
IncrementRunTotals(r, cost) ==
    IF r.status = "absent" THEN r
    ELSE [r EXCEPT !.total_prompt_tokens = @ + cost.prompt_tokens,
                   !.total_completion_tokens = @ + cost.completion_tokens,
                   !.total_tokens = @ + cost.total_tokens,
                   !.total_usd = @ + cost.usd]

\* Repository.update_run(dag=...): an UPDATE that matches no row is a no-op
UpdateRunDag(r, dag) == IF r.status = "absent" THEN r ELSE [r EXCEPT !.dag = dag]

\* Repository.append_run_diagnostic
AppendRunDiagnostic(r, d) ==
    IF r.status = "absent" THEN r ELSE [r EXCEPT !.diagnostics = Append(@, d)]

\* ------------------------------------------------------------ worker state

\* The contract of a node as the planner copied it into the DAG.
Contract(n) == [allows_llm |-> cfg.tools, max_retries |-> cfg.retries,
                model_preference |-> Graph.pref[n]]

\* The state dict _run_loop builds (runtime.py 156-186); node, attempts and
\* max_retries are the locals of the execute_next call in flight.
NewState(r) ==
    [dag |-> r.dag, step_counter |-> 0, progress_made |-> FALSE,
     reflection_needed |-> FALSE, reflection_reason |-> "none",
     reflection_model_preference |-> "none", failure_mode |-> "none",
     should_finish |-> FALSE, finish_status |-> "none", finish_reason |-> "none",
     node |-> 0, attempts |-> 0, max_retries |-> 0, error |-> "none"]

IdleState == NewState(NoRun)
IdleWorker == [pc |-> "idle", st |-> IdleState]
DoneWorker == [pc |-> "done", st |-> IdleState]

\* asyncio.Task.done() of the task in slot w of the slots ws
TaskDone(ws, w) == ws[w].pc \in {"idle", "done"}
ActiveWorkers == {w \in Workers : ~TaskDone(wk, w)}

StartRunSkipsNever(t, ws) == FALSE

\* TaskflowOrchestrator.start_run, the guard (runtime.py 91-93): an entry
\* whose task is not done makes the call a no-op
StartRunSkips(t, ws) == t # 0 /\ ~TaskDone(ws, t)

\* TaskflowOrchestrator.start_run: the registry entry and the worker slots
\* afterwards; asyncio.create_task puts the new task in the first free slot
StartRun(t, ws) ==
    IF StartRunSkips(t, ws) \/ \A w \in Workers : ~TaskDone(ws, w)
    THEN <<t, ws>>
    ELSE LET w == CHOOSE x \in Workers :
                    TaskDone(ws, x) /\ \A v \in Workers : TaskDone(ws, v) => x <= v
         IN <<w, [ws EXCEPT ![w] = [pc |-> "start", st |-> IdleState]]>>

\* ------------------------------------------------------------- LLM provider

\* (prompt_tokens, completion_tokens) of a result
TokenPairs == {<<2, 1>>}

\* What a generate() call can come back with: a result, or the way the
\* provider of this run fails: a result whose content fails the output
\* schema ("invalid"), the outer deadline ("timeout"), any other exception
\* ("error").
OkResponses == {[kind |-> "ok", valid |-> TRUE, p |-> t[1], c |-> t[2]] : t \in TokenPairs}
FailureResponse(failure) ==
    IF failure = "invalid" THEN [kind |-> "ok", valid |-> FALSE, p |-> 2, c |-> 1]
    ELSE [kind |-> failure, valid |-> FALSE, p |-> 0, c |-> 0]
LLMResponses == OkResponses \cup {FailureResponse(cfg.failure)}

\* ------------------------------------------------------------------ planner

\* PlannerService.plan, the DAG built from the template (planner/service.py 91-97)
PlannedDag(g) == [n \in 1..g.n |-> Node("pending", "none", FALSE)]

\* ----------------------------------------------------------------- executor

NextRunnableNodeAnyPending(dag) ==
    LET ok == {n \in DOMAIN dag : dag[n].status = "pending"}
    IN IF ok = {} THEN 0 ELSE CHOOSE n \in ok : \A m \in ok : n <= m

\* ExecutorService._next_runnable_node: 0 when there is none
NextRunnableNode(dag) ==
    LET ok == {n \in DOMAIN dag :
                 /\ dag[n].status = "pending"
                 /\ \A d \in Graph.deps[n] :
                        d \in DOMAIN dag /\ dag[d].status = "completed"}
    IN IF ok = {} THEN 0 ELSE CHOOSE n \in ok : \A m \in ok : n <= m

\* ExecutorService._map_failure_mode
MapFailureMode(code) ==
    IF code = "timeout" THEN "timeout"
    ELSE IF code = "schema_error" THEN "schema_error"
    ELSE "other"

RetryAllowedOffByOne(attempts, max_retries) == attempts < max_retries

\* ExecutorService._handle_step_error, the branch condition (service.py 281)
RetryAllowed(attempts, max_retries) == attempts <= max_retries

\* backoff_s = min(2 ** (attempts - 1), 8)
BackoffS(attempts) == Min(Pow2(attempts - 1), BackoffCap)

ErrorStateUncounted(st, code) ==
    LET retry == RetryAllowed(st.attempts, st.max_retries)
        dag1 == [st.dag EXCEPT ![st.node] =
                    Node(IF retry THEN "pending" ELSE "failed", code, @.last_output)]
        st1 == [st EXCEPT !.dag = dag1, !.error = "none"]
    IN IF retry THEN st1
       ELSE [st1 EXCEPT !.reflection_needed = TRUE,
                        !.reflection_reason = "step_failed",
                        !.failure_mode = MapFailureMode(code)]

\* _handle_step_error: the state dict afterwards
ErrorState(st, code) ==
    LET retry == RetryAllowed(st.attempts, st.max_retries)
        dag1 == [st.dag EXCEPT ![st.node] =
                    Node(IF retry THEN "pending" ELSE "failed", code, @.last_output)]
        st1 == [st EXCEPT !.dag = dag1, !.step_counter = @ + 1, !.error = "none"]
    IN IF retry THEN st1
       ELSE [st1 EXCEPT !.reflection_needed = TRUE,
                        !.reflection_reason = "step_failed",
                        !.failure_mode = MapFailureMode(code)]

\* _handle_step_error: the step row it upserts
ErrorStepRow(st, code) ==
    [status |-> IF RetryAllowed(st.attempts, st.max_retries) THEN "pending" ELSE "failed",
     attempts |-> st.attempts, max_retries |-> st.max_retries,
     error |-> code, output |-> FALSE, cost |-> FALSE]

\* _handle_step_error: the event it emits
ErrorEvent(st, code) ==
    IF RetryAllowed(st.attempts, st.max_retries)
    THEN [Ev("step_retry_scheduled", st.node, st.attempts, "none", code)
            EXCEPT !.backoff_s = BackoffS(st.attempts)]
    ELSE Ev("step_failed", st.node, 0, "none", code)

\* _handle_step_error as a whole, for worker w whose attempt failed with code
HandleStepError(w, st, code) ==
    LET st1 == ErrorState(st, code) IN
    /\ steps' = [steps EXCEPT ![st.node] = ErrorStepRow(st, code)]
    /\ run' = UpdateRunDag(run, st1.dag)
    /\ EmitEvents(<<ErrorEvent(st, code)>>)
    /\ wk' = [wk EXCEPT ![w] =
                [pc |-> IF RetryAllowed(st.attempts, st.max_retries)
                        THEN "backoff" ELSE "monitor",
                 st |-> st1]]
    /\ UNCHANGED ledger

\* ------------------------------------------------------------ worker steps

SetWorker(w, pc, st) == wk' = [wk EXCEPT ![w] = [pc |-> pc, st |-> st]]

\* _run_loop up to the graph's entry point (runtime.py 137-186)
RunLoopStart(w) ==
    /\ wk[w].pc = "start"
    /\ IF run.status = "absent" \/ run.status \in TerminalRunStatuses
       THEN /\ wk' = [wk EXCEPT ![w] = DoneWorker]
            /\ UNCHANGED <<run, events, subs>>
       ELSE /\ run' = [run EXCEPT !.status = "running", !.started = TRUE]
            /\ EmitEvents(<<Ev("run_started", 0, 0, "none", "none")>>)
            /\ SetWorker(w, "plan", NewState(run))
    /\ UNCHANGED <<cfg, steps, ledger, tasks, calls, sse>>

HasDagNever(r) == FALSE

\* PlannerService.plan, the test for a stored DAG (planner/service.py 36)
HasDag(r) == Len(r.dag) > 0

\* _plan_node and PlannerService.plan up to the model call
PlanBegin(w) ==
    /\ wk[w].pc = "plan"
    /\ LET st == wk[w].st IN
       IF run.status = "absent"
       THEN /\ SetWorker(w, "monitor", [st EXCEPT !.should_finish = TRUE,
                                                 !.finish_status = "failed",
                                                 !.finish_reason = "run_missing"])
            /\ UNCHANGED <<events, subs>>
       ELSE IF HasDag(run)
       THEN /\ SetWorker(w, "monitor", [st EXCEPT !.dag = run.dag])
            /\ UNCHANGED <<events, subs>>
       ELSE /\ EmitEvents(<<Ev("planning_started", 0, 0, "none", "none")>>)
            /\ SetWorker(w, "plan_call", st)
    /\ UNCHANGED <<cfg, run, steps, ledger, tasks, calls, sse>>

\* PlannerService.plan after the model call (planner/service.py 60-109); an
\* exception of the provider is not caught and leaves the graph
PlanReturn(w, resp) ==
    /\ wk[w].pc = "plan_call"
    /\ LET st == wk[w].st
           cost == Estimate(ForWorkload("planner"), resp.p, resp.c)
           dag == PlannedDag(Graph)
       IN IF resp.kind # "ok"
          THEN /\ SetWorker(w, "raised", [st EXCEPT !.error = "planner"])
               /\ UNCHANGED <<run, ledger, events, subs>>
          ELSE /\ ledger' = Append(ledger, cost @@ [node |-> 0])
               /\ run' = UpdateRunDag(IncrementRunTotals(run, cost), dag)
               /\ EmitEvents(<<Ev("planning_finished", 0, 0, "none", "none")>>)
               /\ SetWorker(w, "monitor", [st EXCEPT !.dag = dag])
    /\ UNCHANGED <<cfg, steps, tasks, calls, sse>>

\* ExecutorService.execute_next up to the model call (service.py 46-118);
\* a contract without llm.generate fails the attempt before any call
ExecuteBegin(w) ==
    /\ wk[w].pc = "execute"
    /\ LET st == wk[w].st
           n == NextRunnableNode(st.dag)
       IN IF n = 0
          THEN /\ SetWorker(w, "monitor", [st EXCEPT !.progress_made = FALSE])
               /\ UNCHANGED <<run, steps, events, subs, ledger>>
          ELSE LET attempts == IF steps[n].status = "absent" THEN 1
                               ELSE steps[n].attempts + 1
                   dag1 == [st.dag EXCEPT ![n].status = "running"]
                   st1 == [st EXCEPT !.progress_made = TRUE, !.dag = dag1, !.node = n,
                                     !.attempts = attempts,
                                     !.max_retries = Contract(n).max_retries]
                   started == Ev("step_started", n, attempts, "none", "none")
               IN IF Contract(n).allows_llm
                  THEN /\ run' = UpdateRunDag(run, dag1)
                       /\ steps' = [steps EXCEPT ![n] =
                                      [status |-> "running", attempts |-> attempts,
                                       max_retries |-> st1.max_retries, error |-> "none",
                                       output |-> FALSE, cost |-> FALSE]]
                       /\ EmitEvents(<<started>>)
                       /\ SetWorker(w, "exec_call", st1)
                       /\ UNCHANGED ledger
                  ELSE LET st2 == ErrorState(st1, "tool_not_allowed") IN
                       /\ run' = UpdateRunDag(run, st2.dag)
                       /\ steps' = [steps EXCEPT ![n] = ErrorStepRow(st1, "tool_not_allowed")]
                       /\ EmitEvents(<<started, ErrorEvent(st1, "tool_not_allowed")>>)
                       /\ SetWorker(w, IF RetryAllowed(st1.attempts, st1.max_retries)
                                       THEN "backoff" ELSE "monitor", st2)
                       /\ UNCHANGED ledger
    /\ UNCHANGED <<cfg, tasks, calls, sse>>

\* ExecutorService.execute_next after the model call (service.py 120-258)
ExecuteReturn(w, resp) ==
    /\ wk[w].pc = "exec_call"
    /\ LET st == wk[w].st
           n == st.node
           pref == IF st.reflection_model_preference # "none"
                   THEN st.reflection_model_preference
                   ELSE Contract(n).model_preference
           cost == Estimate(ForStep(pref, "executor"), resp.p, resp.c)
           dag1 == [st.dag EXCEPT ![n] = Node("completed", "none", TRUE)]
       IN IF resp.kind = "timeout" THEN HandleStepError(w, st, "timeout")
          ELSE IF resp.kind = "error" THEN HandleStepError(w, st, "execution_error")
          ELSE IF ~resp.valid THEN HandleStepError(w, st, "schema_error")
          ELSE /\ steps' = [steps EXCEPT ![n] =
                              [status |-> "completed", attempts |-> st.attempts,
                               max_retries |-> st.max_retries, error |-> "none",
                               output |-> TRUE, cost |-> TRUE]]
               /\ ledger' = Append(ledger, cost @@ [node |-> n])
               /\ run' = UpdateRunDag(IncrementRunTotals(run, cost), dag1)
               /\ EmitEvents(<<Ev("step_finished", n, 0, "none", "none")>>)
               /\ SetWorker(w, "monitor", [st EXCEPT !.dag = dag1, !.step_counter = @ + 1])
    /\ UNCHANGED <<cfg, tasks, calls, sse>>

\* the end of asyncio.sleep(backoff_s) in _handle_step_error (service.py 318)
BackoffDone(w) ==
    /\ wk[w].pc = "backoff"
    /\ SetWorker(w, "monitor", wk[w].st)
    /\ UNCHANGED <<cfg, run, steps, events, ledger, tasks, calls, subs, sse>>

\* ------------------------------------------------------------------ monitor

\* MonitorService._has_runnable_nodes
HasRunnableNodes(dag) ==
    \E n \in DOMAIN dag :
        /\ dag[n].status = "pending"
        /\ \A d \in Graph.deps[n] : d \in DOMAIN dag /\ dag[d].status = "completed"

Statuses(dag) == {dag[n].status : n \in DOMAIN dag}

FinishWith(st, status, reason) ==
    [st EXCEPT !.should_finish = TRUE, !.finish_status = status, !.finish_reason = reason]

ReflectWith(st, reason, mode) ==
    [st EXCEPT !.reflection_needed = TRUE, !.reflection_reason = reason, !.failure_mode = mode]

ModeOrClears(st, mode) == IF st.failure_mode # "none" THEN "none" ELSE mode

\* state.get("failure_mode") or mode
ModeOr(st, mode) == IF st.failure_mode # "none" THEN st.failure_mode ELSE mode

BudgetExceededStrict(r) == r.total_usd > cfg.budget_usd

\* MonitorService.evaluate, the budget test (monitor/service.py 42)
BudgetExceeded(r) == r.total_usd >= cfg.budget_usd

\* MonitorService.evaluate reaches the periodic-reflection test (monitor/service.py 91-96)
ReachesPeriodicTest(st, r, expired) ==
    /\ r.status # "absent"
    /\ ~r.cancel_requested
    /\ ~expired
    /\ ~BudgetExceeded(r)
    /\ ~(Statuses(st.dag) # {} /\ Statuses(st.dag) \subseteq {"completed", "skipped"})
    /\ ~(~HasRunnableNodes(st.dag) /\ "pending" \in Statuses(st.dag)
            /\ "running" \notin Statuses(st.dag))
    /\ ~(Statuses(st.dag) \cap {"pending", "running"} = {} /\ "failed" \in Statuses(st.dag))
    /\ ~(st.step_counter >= cfg.max_steps)

\* step_counter % interval with interval = 0: ZeroDivisionError
MonitorRaises(st, r, expired) ==
    /\ ReachesPeriodicTest(st, r, expired)
    /\ st.step_counter > 0
    /\ cfg.reflection_interval_steps = 0

\* MonitorService.evaluate from the timeout test on (monitor/service.py
\* 32-101); expired is int(time.monotonic() - run_started_monotonic) >= timeout_s
MonitorDecide(st, r, expired) ==
    IF expired
    THEN ReflectWith(FinishWith(st, "failed", "timeout"), "timeout", "timeout")
    ELSE IF BudgetExceeded(r)
    THEN ReflectWith(FinishWith(st, "failed", "budget_exceeded"), "budget", "budget_risk")
    ELSE IF Statuses(st.dag) # {} /\ Statuses(st.dag) \subseteq {"completed", "skipped"}
    THEN FinishWith(st, "completed", "all_steps_completed")
    ELSE IF ~HasRunnableNodes(st.dag) /\ "pending" \in Statuses(st.dag)
            /\ "running" \notin Statuses(st.dag)
    THEN ReflectWith(FinishWith(st, "failed", "dependency_deadlock"),
                     "deadlock", ModeOr(st, "other"))
    ELSE IF Statuses(st.dag) \cap {"pending", "running"} = {} /\ "failed" \in Statuses(st.dag)
    THEN ReflectWith(FinishWith(st, "failed", "steps_failed"),
                     "steps_failed", ModeOr(st, "other"))
    ELSE IF st.step_counter >= cfg.max_steps
    THEN ReflectWith(FinishWith(st, "failed", "max_steps_exceeded"), "max_steps", "other")
    ELSE IF /\ st.step_counter > 0
            /\ cfg.reflection_interval_steps # 0
            /\ st.step_counter % cfg.reflection_interval_steps = 0
            /\ st.progress_made
    THEN [ReflectWith(st, "periodic", ModeOr(st, "low_confidence"))
            EXCEPT !.progress_made = FALSE]
    ELSE st

MonitorEvaluateTimeoutFirst(st, r, expired) ==
    IF r.status = "absent" THEN FinishWith(st, "failed", "run_missing")
    ELSE IF expired THEN MonitorDecide(st, r, expired)
    ELSE IF r.cancel_requested THEN FinishWith(st, "canceled", "cancel_requested")
    ELSE MonitorDecide(st, r, expired)

MonitorEvaluateCancelWhenIdle(st, r, expired) ==
    IF r.status = "absent" THEN FinishWith(st, "failed", "run_missing")
    ELSE IF r.cancel_requested /\ ~st.progress_made
    THEN FinishWith(st, "canceled", "cancel_requested")
    ELSE MonitorDecide(st, r, expired)

MonitorEvaluateCancelIgnored(st, r, expired) ==
    IF r.status = "absent" THEN FinishWith(st, "failed", "run_missing")
    ELSE MonitorDecide(st, r, expired)

\* MonitorService.evaluate (monitor/service.py 14-101): the run is read
\* fresh from the store, and a stored cancel request wins over everything else
MonitorEvaluate(st, r, expired) ==
    IF r.status = "absent" THEN FinishWith(st, "failed", "run_missing")
    ELSE IF r.cancel_requested THEN FinishWith(st, "canceled", "cancel_requested")
    ELSE MonitorDecide(st, r, expired)

RouteAfterMonitorReflectFirst(st) ==
    IF st.reflection_needed THEN "reflect"
    ELSE IF st.should_finish THEN "finish"
    ELSE "execute"

\* TaskflowOrchestrator._route_after_monitor
RouteAfterMonitor(st) ==
    IF st.should_finish THEN "finish"
    ELSE IF st.reflection_needed THEN "reflect"
    ELSE "execute"

\* _monitor_node: evaluate, persist the DAG, route (runtime.py 277-280, 247-252)
Monitor(w, expired) ==
    /\ wk[w].pc = "monitor"
    /\ LET st == wk[w].st IN
       IF MonitorRaises(st, run, expired)
       THEN /\ SetWorker(w, "raised", [st EXCEPT !.error = "monitor"])
            /\ UNCHANGED run
       ELSE LET st1 == MonitorEvaluate(st, run, expired) IN
            /\ run' = UpdateRunDag(run, st1.dag)
            /\ SetWorker(w, RouteAfterMonitor(st1), st1)
    /\ UNCHANGED <<cfg, steps, events, ledger, tasks, calls, subs, sse>>

\* --------------------------------------------------------------- reflection

\* ReflectionService._decide_action
DecideActionSchemaTerminates(failure_mode) ==
    IF failure_mode = "low_confidence" THEN "adjusted_parameters" ELSE "terminated"

\* ReflectionService._decide_action
DecideAction(failure_mode) ==
    IF failure_mode \in {"timeout", "budget_risk"} THEN "terminated"
    ELSE IF failure_mode = "schema_error" THEN "replanned"
    ELSE IF failure_mode = "low_confidence" THEN "adjusted_parameters"
    ELSE "terminated"

\* the forward BFS over the edges from a set of nodes
RECURSIVE Reach(_)
Reach(seen) ==
    LET next == seen \cup {e[2] : e \in {x \in Graph.edges : x[1] \in seen}}
    IN IF next = seen THEN seen ELSE Reach(next)

\* sorted(ids)
RECURSIVE SortedSeq(_)
SortedSeq(ids) ==
    IF ids = {} THEN <<>>
    ELSE LET m == CHOOSE x \in ids : \A y \in ids : x <= y
         IN <<m>> \o SortedSeq(ids \ {m})

SkipFailedChildren(dag) ==
    LET failed == {n \in DOMAIN dag : dag[n].status = "failed"}
        seen == failed \cup {e[2] : e \in {x \in Graph.edges : x[1] \in failed}}
    IN IF failed = {} THEN dag
       ELSE [n \in DOMAIN dag |->
               IF n \in seen /\ dag[n].status = "pending"
               THEN [dag[n] EXCEPT !.status = "skipped", !.last_error = "execution_error",
                                   !.upstream = SortedSeq(failed)]
               ELSE dag[n]]

\* ReflectionService._skip_failed_descendants
SkipFailedDescendants(dag) ==
    LET failed == {n \in DOMAIN dag : dag[n].status = "failed"}
        seen == Reach(failed)
    IN IF failed = {} THEN dag
       ELSE [n \in DOMAIN dag |->
               IF n \in seen /\ dag[n].status = "pending"
               THEN [dag[n] EXCEPT !.status = "skipped", !.last_error = "execution_error",
                                   !.upstream = SortedSeq(failed)]
               ELSE dag[n]]

ReflectStateKeepsMode(st) ==
    LET mode == IF st.failure_mode # "none" THEN st.failure_mode ELSE "other"
        action == DecideAction(mode)
        st1 == IF action = "replanned"
               THEN [st EXCEPT !.dag = SkipFailedDescendants(st.dag)]
               ELSE IF action = "adjusted_parameters"
               THEN [st EXCEPT !.reflection_model_preference = "expensive"]
               ELSE IF st.finish_status \notin {"failed", "canceled"}
               THEN FinishWith(st, "failed", "reflection_terminated")
               ELSE [st EXCEPT !.should_finish = TRUE]
    IN [st1 EXCEPT !.reflection_needed = FALSE, !.reflection_reason = "none"]

\* ReflectionService.reflect: the state dict afterwards
ReflectState(st) ==
    LET mode == IF st.failure_mode # "none" THEN st.failure_mode ELSE "other"
        action == DecideAction(mode)
        st1 == IF action = "replanned"
               THEN [st EXCEPT !.dag = SkipFailedDescendants(st.dag)]
               ELSE IF action = "adjusted_parameters"
               THEN [st EXCEPT !.reflection_model_preference = "expensive"]
               ELSE IF st.finish_status \notin {"failed", "canceled"}
               THEN FinishWith(st, "failed", "reflection_terminated")
               ELSE [st EXCEPT !.should_finish = TRUE]
    IN [st1 EXCEPT !.reflection_needed = FALSE, !.reflection_reason = "none",
                   !.failure_mode = "none"]

\* the diagnostic reflect appends
Diagnostic(st) ==
    LET mode == IF st.failure_mode # "none" THEN st.failure_mode ELSE "other" IN
    [reason |-> IF st.reflection_reason # "none" THEN st.reflection_reason
                ELSE "reflection_requested",
     failure_mode |-> mode, action_taken |-> DecideAction(mode)]

\* _reflect_node: reflect, then persist the DAG (runtime.py 282-285)
Reflect(w) ==
    /\ wk[w].pc = "reflect"
    /\ LET st == wk[w].st
           d == Diagnostic(st)
       IN IF ~st.reflection_needed
          THEN /\ run' = UpdateRunDag(run, st.dag)
               /\ SetWorker(w, "monitor", st)
               /\ UNCHANGED <<events, subs>>
          ELSE /\ run' = UpdateRunDag(AppendRunDiagnostic(run, d), ReflectState(st).dag)
               /\ EmitEvents(
                    (IF d.action_taken = "replanned"
                     THEN <<Ev("replanned", 0, 0, "none", d.failure_mode)>> ELSE <<>>)
                    \o <<Ev("reflection", 0, 0, d.action_taken, d.failure_mode)>>)
               /\ SetWorker(w, "monitor", ReflectState(st))
    /\ UNCHANGED <<cfg, steps, ledger, tasks, calls, sse>>

\* ------------------------------------------------------------------- finish

\* _mark_open_steps_canceled, the DAG nodes
CancelOpenNodes(dag) ==
    [n \in DOMAIN dag |->
        IF dag[n].status \in {"pending", "running"}
        THEN [dag[n] EXCEPT !.status = "canceled", !.last_error = "canceled", !.upstream = <<>>]
        ELSE dag[n]]

\* _mark_open_steps_canceled, the step rows
CancelOpenSteps(rows) ==
    [n \in DOMAIN rows |->
        IF rows[n].status \in {"pending", "running"}
        THEN [rows[n] EXCEPT !.status = "canceled", !.error = "canceled"]
        ELSE rows[n]]

FinishCancelsOpenAlways(status) == TRUE

\* does _finish_node close the open nodes and steps (runtime.py 290)
FinishCancelsOpen(status) == status = "canceled"

\* _finish_node (runtime.py 287-305); afterwards the graph reaches END and
\* the task is still to return from ainvoke
Finish(w) ==
    /\ wk[w].pc = "finish"
    /\ LET st == wk[w].st
           status == IF st.finish_status # "none" THEN st.finish_status ELSE "failed"
           reason == IF st.finish_reason # "none" THEN st.finish_reason ELSE "unknown"
           dag1 == IF FinishCancelsOpen(status) THEN CancelOpenNodes(st.dag) ELSE st.dag
       IN /\ steps' = IF FinishCancelsOpen(status) THEN CancelOpenSteps(steps) ELSE steps
          /\ run' = IF run.status = "absent" THEN run
                    ELSE [run EXCEPT !.status = status, !.ended = TRUE,
                                     !.cancel_requested = FALSE, !.dag = dag1]
          /\ EmitEvents(<<Ev("run_finished", 0, 0, status, reason)>>)
          /\ SetWorker(w, "end", [st EXCEPT !.dag = dag1])
    /\ UNCHANGED <<cfg, ledger, tasks, calls, sse>>

\* _run_loop, the return from ainvoke: finally pops the registry entry (runtime.py 209-210)
WorkerExit(w) ==
    /\ wk[w].pc = "end"
    /\ wk' = [wk EXCEPT ![w] = DoneWorker]
    /\ tasks' = 0
    /\ UNCHANGED <<cfg, run, steps, events, ledger, calls, subs, sse>>

\* the diagnostic of the except branch of _run_loop (runtime.py 194-201): its
\* reason carries the text of the exception, the provider's error raised
\* through the planner or the ZeroDivisionError of the monitor
UnhandledReason(err) ==
    IF err = "monitor" THEN "unhandled: integer modulo by zero"
    ELSE "unhandled: provider error"

UnhandledDiagnostic(err) ==
    [reason |-> UnhandledReason(err), failure_mode |-> "other",
     action_taken |-> "terminated"]

HandleExceptionKeepsEntry(w) ==
    /\ wk[w].pc = "raised"
    /\ run' = IF run.status = "absent" THEN run
              ELSE [run EXCEPT !.status = "failed", !.ended = TRUE,
                      !.diagnostics = <<UnhandledDiagnostic(wk[w].st.error)>>]
    /\ EmitEvents(<<Ev("run_finished", 0, 0, "failed", "orchestrator_exception")>>)
    /\ wk' = [wk EXCEPT ![w] = DoneWorker]
    /\ UNCHANGED <<cfg, steps, ledger, calls, sse, tasks>>

\* _run_loop, the except branch and finally (runtime.py 190-210)
HandleException(w) ==
    /\ wk[w].pc = "raised"
    /\ run' = IF run.status = "absent" THEN run
              ELSE [run EXCEPT !.status = "failed", !.ended = TRUE,
                      !.diagnostics = <<UnhandledDiagnostic(wk[w].st.error)>>]
    /\ EmitEvents(<<Ev("run_finished", 0, 0, "failed", "orchestrator_exception")>>)
    /\ wk' = [wk EXCEPT ![w] = DoneWorker]
    /\ tasks' = 0
    /\ UNCHANGED <<cfg, steps, ledger, calls, sse>>

\* ------------------------------------------------------------- HTTP surface

\* POST /runs (routers/runs.py 100-141): create the row, store and publish
\* run_created, start the worker
CreateRun ==
    /\ run.status = "absent"
    /\ run' = [NoRun EXCEPT !.status = "created"]
    /\ EmitEvents(<<Ev("run_created", 0, 0, "none", "none")>>)
    /\ tasks' = StartRun(tasks, wk)[1]
    /\ wk' = StartRun(tasks, wk)[2]
    /\ UNCHANGED <<cfg, steps, ledger, calls, sse>>

\* POST /runs/{id}/cancel (routers/runs.py 157-182) with request_cancel
CancelRun ==
    /\ run.status # "absent"
    /\ calls < MaxCalls
    /\ calls' = calls + 1
    /\ run' = [run EXCEPT !.cancel_requested = TRUE]
    /\ EmitEvents(<<Ev("cancel_requested", 0, 0, "none", "none")>>)
    /\ UNCHANGED <<cfg, steps, ledger, tasks, wk, sse>>

\* Repository.reset_failed_steps (repo.py 300-317): attempts is not in the SET list
ResetFailedSteps(rows) ==
    [n \in DOMAIN rows |->
        IF rows[n].status = "failed"
        THEN [rows[n] EXCEPT !.status = "pending", !.error = "none",
                             !.output = FALSE, !.cost = FALSE]
        ELSE rows[n]]

\* Repository.reset_step (repo.py 280-298); the step id of a row is its node id
ResetStep(rows, sid) ==
    [rows EXCEPT ![sid] = [@ EXCEPT !.status = "pending", !.attempts = 0, !.error = "none",
                                    !.output = FALSE, !.cost = FALSE]]

ResetFailedAndSkippedNodes(dag) ==
    [n \in DOMAIN dag |->
        IF dag[n].status \in {"failed", "skipped"} THEN Node("pending", "none", FALSE)
        ELSE dag[n]]

\* TaskflowOrchestrator._reset_failed_nodes
ResetFailedNodes(dag) ==
    [n \in DOMAIN dag |->
        IF dag[n].status = "failed" THEN Node("pending", "none", FALSE) ELSE dag[n]]

\* TaskflowOrchestrator._reset_node_for_step_retry
ResetNodeForStepRetry(dag, sid) ==
    [n \in DOMAIN dag |-> IF n = sid THEN Node("pending", "none", FALSE) ELSE dag[n]]

\* the step id "": a string, and false in "if step_id:"
EmptyStepId == -1

\* "if step_id:" (runtime.py 112): None and "" take the else branch
StepIdGiven(sid) == sid \notin {0, EmptyStepId}

\* Repository.reset_step's WHERE run_id=? AND id=? matches a row: the rows
\* of this run are steps, a step id of another run is outside its domain
StepOfRun(sid) == sid \in DOMAIN steps /\ steps[sid].status # "absent"

\* POST /runs/{id}/retry with TaskflowOrchestrator.retry_run (runtime.py
\* 106-134); sid = 0 is step_id None, another sid names the step row of that
\* node, which may not exist
RetryRun(sid) ==
    /\ run.status # "absent"
    /\ calls < MaxCalls
    /\ calls' = calls + 1
    /\ IF StepIdGiven(sid) /\ ~StepOfRun(sid)
       THEN UNCHANGED <<run, steps, events, subs, tasks, wk>>
       ELSE LET dag == IF StepIdGiven(sid) THEN ResetNodeForStepRetry(run.dag, sid)
                       ELSE ResetFailedNodes(run.dag)
            IN /\ steps' = IF StepIdGiven(sid) THEN ResetStep(steps, sid)
                           ELSE ResetFailedSteps(steps)
               /\ run' = [run EXCEPT !.status = "running", !.ended = FALSE,
                                     !.cancel_requested = FALSE, !.dag = dag]
               /\ EmitEvents(<<Ev("run_retry_requested", sid, 0, "none", "none")>>)
               /\ tasks' = StartRun(tasks, wk)[1]
               /\ wk' = StartRun(tasks, wk)[2]
    /\ UNCHANGED <<cfg, ledger, sse>>

\* retry_run for a run id the store may not have: get_run returns None and
\* the call returns False (runtime.py 107-109)
RetryRequest(sid) ==
    IF run.status = "absent"
    THEN /\ calls < MaxCalls
         /\ calls' = calls + 1
         /\ UNCHANGED <<cfg, run, steps, events, ledger, tasks, wk, subs, sse>>
    ELSE RetryRun(sid)

\* no _sse_stream generator is running
NoSse == [pc |-> "idle", got |-> <<>>]

\* The process stops and starts again: every task, the registry and the
\* broker are gone, and lifespan calls resume_incomplete_runs (main.py 75,
\* runtime.py 98-101), which starts a worker when the run is created or running
Restart ==
    /\ run.status # "absent"
    /\ calls < MaxCalls
    /\ calls' = calls + 1
    /\ LET ws == [w \in Workers |-> IdleWorker]
           started == IF run.status \in IncompleteRunStatuses
                      THEN StartRun(0, ws) ELSE <<0, ws>>
       IN tasks' = started[1] /\ wk' = started[2]
    /\ subs' = <<>>
    /\ sse' = NoSse
    /\ UNCHANGED <<cfg, run, steps, events, ledger>>

\* ---------------------------------------------------------- SSE consumer

\* _sse_stream, the replay (routers/runs.py 219-220): list_events is read
\* once and every stored event is yielded; nothing is subscribed yet
SseReplay ==
    /\ sse.pc = "idle"
    /\ run.status # "absent"
    /\ sse' = [pc |-> "replayed", got |-> [i \in 1..Len(events) |-> i]]
    /\ UNCHANGED <<cfg, run, steps, events, ledger, tasks, wk, calls, subs>>

\* EventBroker.subscribe (broker.py 28-31), entered by the first anext
SseSubscribe ==
    /\ sse.pc = "replayed"
    /\ subs' = Append(subs, <<>>)
    /\ sse' = [sse EXCEPT !.pc = "tail"]
    /\ UNCHANGED <<cfg, run, steps, events, ledger, tasks, wk, calls>>

\* _sse_stream, the tail (routers/runs.py 224-227): one event off the queue
SseTail ==
    /\ sse.pc = "tail"
    /\ Len(subs) > 0 /\ Len(subs[1]) > 0
    /\ sse' = [sse EXCEPT !.got = Append(@, Head(subs[1]))]
    /\ subs' = [subs EXCEPT ![1] = Tail(@)]
    /\ UNCHANGED <<cfg, run, steps, events, ledger, tasks, wk, calls>>

\* _sse_stream, the 15 s without an event (routers/runs.py 225-229):
\* wait_for cancels the pending anext, which finishes the subscribe
\* generator (its finally discards the queue); the next anext raises
\* StopAsyncIteration and the stream ends
SseKeepalive ==
    /\ sse.pc = "tail"
    /\ Len(subs) > 0 /\ Len(subs[1]) = 0
    /\ sse' = [sse EXCEPT !.pc = "closed"]
    /\ subs' = Tail(subs)
    /\ UNCHANGED <<cfg, run, steps, events, ledger, tasks, wk, calls>>

\* ------------------------------------------------------------ specification

Constraints(ms, b, i) == [max_steps |-> ms, budget_usd |-> b, reflection_interval_steps |-> i]

Config(t, r, failure, tools, c) ==
    [template |-> t, retries |-> r, failure |-> failure, tools |-> tools,
     max_steps |-> c.max_steps, budget_usd |-> c.budget_usd,
     reflection_interval_steps |-> c.reflection_interval_steps]

\* a budget the first executor call of a default-rate node exceeds
LowBudget == DefaultPromptRate + DefaultCompletionRate
Defaults == Constraints(DefaultMaxSteps, DefaultBudget, 2)

\* the budget a single-node run reaches exactly: the planner's call at the
\* cheap rates plus one executor call at the default rates
ExactBudget ==
    LET t == CHOOSE x \in TokenPairs : TRUE
    IN Estimate(ForWorkload("planner"), t[1], t[2]).usd
       + Estimate(ForStep("default", "executor"), t[1], t[2]).usd

\* The runs explored: template, max_retries of its contracts, the provider's
\* failure, whether the contracts allow llm.generate, and the constraints.
Configs ==
    {Config("single", r, f, TRUE, Defaults) : r \in {0, 1}, f \in {"invalid", "timeout", "error"}}
    \cup {Config("chain", 0, f, TRUE, Defaults) : f \in {"invalid", "timeout", "error"}}
    \cup {Config("chain", 1, "invalid", TRUE, Defaults),
          Config("pair", 0, "invalid", TRUE, Defaults),
          Config("single", 1, "error", FALSE, Defaults),
          Config("single", 1, "error", TRUE, Constraints(DefaultMaxSteps, DefaultBudget, 1)),
          Config("chain", 1, "error", TRUE, Constraints(1, DefaultBudget, 2)),
          Config("pair", 1, "error", TRUE, Constraints(DefaultMaxSteps, LowBudget, 2)),
          Config("single", 0, "error", TRUE, Constraints(DefaultMaxSteps, ExactBudget, 2)),
          Config("chain", 0, "error", TRUE, Constraints(DefaultMaxSteps, DefaultBudget, 0)),
          Config("orphan", 0, "error", TRUE, Defaults),
          Config("single", 0, "error", TRUE, Constraints(0, DefaultBudget, 2))}

InitWith(configs) ==
    /\ cfg \in configs
    /\ run = NoRun
    /\ steps = [n \in 1..Templates[cfg.template].n |-> NoStep]
    /\ events = <<>>
    /\ ledger = <<>>
    /\ tasks = 0
    /\ wk = [w \in Workers |-> IdleWorker]
    /\ calls = 0
    /\ subs = <<>>
    /\ sse = NoSse

Init == InitWith(Configs)

WorkerStep(w) ==
    \/ RunLoopStart(w)
    \/ PlanBegin(w)
    \/ \E resp \in LLMResponses : PlanReturn(w, resp)
    \/ ExecuteBegin(w)
    \/ \E resp \in LLMResponses : ExecuteReturn(w, resp)
    \/ BackoffDone(w)
    \/ \E expired \in BOOLEAN : Monitor(w, expired)
    \/ Reflect(w)
    \/ Finish(w)
    \/ WorkerExit(w)
    \/ HandleException(w)

Next ==
    \/ CreateRun
    \/ \E w \in Workers : WorkerStep(w)
    \/ CancelRun
    \/ \E sid \in {0} \cup NodeIds : RetryRun(sid)
    \/ Restart

\* The service under every intervention: cancel, retry, crash and resume.
Spec == Init /\ [][Next]_vars

\* ------------------------------------------------- the event stream consumer

StreamConfigs ==
    {Config("pair", 1, "error", TRUE, Defaults),
     Config("chain", 0, "invalid", TRUE, Constraints(DefaultMaxSteps, DefaultBudget, 1))}

StreamInit == InitWith(StreamConfigs)

StreamNext ==
    \/ CreateRun
    \/ \E w \in Workers : WorkerStep(w)
    \/ SseReplay
    \/ SseSubscribe
    \/ SseTail
    \/ SseKeepalive

\* One run and one GET /runs/{id}/events consumer, no intervention.
SpecStream == StreamInit /\ [][StreamNext]_vars

\* ------------------------------------------------------ retry after failure

RetryConfigs ==
    {Config("pair", 1, "error", TRUE, Defaults),
     Config("chain", 0, "invalid", TRUE, Constraints(DefaultMaxSteps, DefaultBudget, 1))}

RetryInit == InitWith(RetryConfigs)

RetryNext ==
    \/ CreateRun
    \/ \E w \in Workers : WorkerStep(w)
    \/ RetryRun(0)

\* One run whose only intervention is retry_run(id, None).  The event loop
\* runs every task that is ready: a worker that can take a step takes it.
SpecRetry ==
    RetryInit /\ [][RetryNext]_vars /\ WF_vars(\E w \in Workers : WorkerStep(w))

\* --------------------------------------------------------------- happy path

\* every template with every reflection interval the schema accepts up to 2
HappyConfigs ==
    {Config(t, 1, "error", TRUE, Constraints(DefaultMaxSteps, DefaultBudget, i)) :
        t \in {"single", "chain", "pair", "default"}, i \in 0..2}

HappyInit == InitWith(HappyConfigs)

\* the worker when every model call returns valid output and the timeout
\* is not reached
HappyStep(w) ==
    \/ RunLoopStart(w)
    \/ PlanBegin(w)
    \/ \E resp \in OkResponses : PlanReturn(w, resp)
    \/ ExecuteBegin(w)
    \/ \E resp \in OkResponses : ExecuteReturn(w, resp)
    \/ Monitor(w, FALSE)
    \/ Reflect(w)
    \/ Finish(w)
    \/ WorkerExit(w)
    \/ HandleException(w)

HappyNext ==
    \/ CreateRun
    \/ \E w \in Workers : HappyStep(w)

SpecHappy == HappyInit /\ [][HappyNext]_vars

\* ------------------------------------------------- the monitor on its inputs

NodeStatuses == {"pending", "running", "completed", "failed", "skipped", "canceled"}

\* the constraints a run is created with: max_steps reached or not by the
\* step counters drawn, every reflection interval up to 2
MonitorConfigs ==
    {Config(t, 1, "error", TRUE, Constraints(ms, LowBudget, i)) :
        t \in {"chain", "pair", "empty"}, ms \in {1, DefaultMaxSteps}, i \in 0..2}

\* The inputs of MonitorService.evaluate: the worker's state dict with every
\* assignment of node statuses, a step counter, progress_made and the
\* failure mode an earlier step left, and the stored run: missing, or present
\* with or without a cancel request, under or at its budget.
MonitorInit ==
    /\ cfg \in MonitorConfigs
    /\ \E dag \in [1..Templates[cfg.template].n -> {Node(s, "none", FALSE) : s \in NodeStatuses}],
          sc \in 0..2, pm \in BOOLEAN, fm \in {"none", "schema_error"},
          present \in BOOLEAN, cr \in BOOLEAN, usd \in {0, LowBudget} :
        /\ run = IF present
                 THEN [NoRun EXCEPT !.status = "running", !.started = TRUE, !.dag = dag,
                                    !.cancel_requested = cr, !.total_usd = usd]
                 ELSE NoRun
        /\ present \/ (~cr /\ usd = 0)
        /\ wk = [w \in Workers |->
                   IF w = 1
                   THEN [pc |-> "monitor",
                         st |-> [NewState(NoRun) EXCEPT !.dag = dag, !.step_counter = sc,
                                                        !.progress_made = pm,
                                                        !.failure_mode = fm]]
                   ELSE IdleWorker]
    /\ steps = [n \in 1..Templates[cfg.template].n |-> NoStep]
    /\ events = <<>>
    /\ ledger = <<>>
    /\ tasks = 1
    /\ calls = 0
    /\ subs = <<>>
    /\ sse = NoSse

MonitorNext == \E w \in Workers, expired \in BOOLEAN : Monitor(w, expired)

\* _monitor_node applied once to each input.
SpecMonitor == MonitorInit /\ [][MonitorNext]_vars

\* ------------------------------------------------ a consumer that falls behind

\* a two-node chain with a reflection after every step, the provider failing
\* or not at each call
BrokerConfigs ==
    {Config("chain", 0, "error", TRUE, Constraints(DefaultMaxSteps, DefaultBudget, 1))}

\* cancel requests published since the consumer subscribed
BrokerBacklogs == {0, 1, QueueMaxsize - 1, QueueMaxsize}

\* The worker waits for the planner's model call; a consumer has replayed the
\* three stored events and subscribed, and has read nothing of the backlog of
\* cancel_requested events that POST /runs/{id}/cancel published since; after
\* a backlog one more intervention is explored.
BrokerInit ==
    /\ cfg \in BrokerConfigs
    /\ \E n \in BrokerBacklogs :
        /\ run = [NoRun EXCEPT !.status = "running", !.started = TRUE,
                               !.cancel_requested = (n > 0)]
        /\ events = <<Ev("run_created", 0, 0, "none", "none"),
                      Ev("run_started", 0, 0, "none", "none"),
                      Ev("planning_started", 0, 0, "none", "none")>>
                    \o [i \in 1..n |-> Ev("cancel_requested", 0, 0, "none", "none")]
        /\ subs = <<[i \in 1..n |-> 3 + i]>>
        /\ calls = IF n = 0 THEN 0 ELSE MaxCalls - 1
    /\ steps = [n \in 1..Templates[cfg.template].n |-> NoStep]
    /\ ledger = <<>>
    /\ tasks = 1
    /\ wk = [w \in Workers |->
               IF w = 1 THEN [pc |-> "plan_call", st |-> NewState(NoRun)] ELSE IdleWorker]
    /\ sse = [pc |-> "tail", got |-> <<1, 2, 3>>]

\* the steps of a worker that is past run_started and plan's first half
BrokerStep(w) ==
    \/ \E resp \in LLMResponses : PlanReturn(w, resp)
    \/ ExecuteBegin(w)
    \/ \E resp \in LLMResponses : ExecuteReturn(w, resp)
    \/ \E expired \in BOOLEAN : Monitor(w, expired)
    \/ Reflect(w)
    \/ Finish(w)
    \/ WorkerExit(w)
    \/ HandleException(w)

BrokerNext ==
    \/ \E w \in Workers : BrokerStep(w)
    \/ CancelRun
    \/ SseTail
    \/ SseKeepalive

\* Producers (the worker, cancel requests) and one consumer of the run's queue.
SpecBroker == BrokerInit /\ [][BrokerNext]_vars

\* ------------------------------------------------------ restart and resume

ResumeConfigs ==
    {Config("chain", 1, "error", TRUE, Defaults),
     Config("pair", 0, "invalid", TRUE, Constraints(DefaultMaxSteps, DefaultBudget, 1))}

ResumeInit == InitWith(ResumeConfigs)

ResumeNext ==
    \/ CreateRun
    \/ \E w \in Workers : WorkerStep(w)
    \/ Restart

\* One run and a process that stops and starts again at any point.  The
\* event loop runs every task that is ready, and the clock advances: a
\* worker that evaluates the monitor again and again finds the timeout
\* expired at some evaluation.
SpecResume ==
    /\ ResumeInit /\ [][ResumeNext]_vars
    /\ WF_vars(\E w \in Workers : WorkerStep(w))
    /\ SF_vars(\E w \in Workers : Monitor(w, TRUE))

\* ------------------------------------------------- the router on its inputs

\* WorkloadType
WorkloadTypes == {"planner", "executor", "reflection", "synthesis"}

\* model_preference values: the three tiers, None ("none"), and strings that
\* are none of the three
Preferences == {"cheap", "default", "expensive", "none", "", "Cheap", "premium", "planner"}

\* a router and the arguments of the calls made on it
RouterInit ==
    /\ cfg \in [model_preference : Preferences, fallback_workload : WorkloadTypes]
    /\ run = NoRun
    /\ steps = <<>>
    /\ events = <<>>
    /\ ledger = <<>>
    /\ tasks = 0
    /\ wk = [w \in Workers |-> IdleWorker]
    /\ calls = 0
    /\ subs = <<>>
    /\ sse = NoSse

\* router.for_workload(fallback_workload); the model returned is recorded
RouteWorkload ==
    /\ Len(ledger) < MaxCalls
    /\ ledger' = Append(ledger, [call |-> "for_workload",
                                  model |-> ForWorkload(cfg.fallback_workload)])
    /\ UNCHANGED <<cfg, run, steps, events, tasks, wk, calls, subs, sse>>

\* router.for_step(model_preference, fallback_workload)
RouteStep ==
    /\ Len(ledger) < MaxCalls
    /\ ledger' = Append(ledger, [call |-> "for_step",
                                  model |-> ForStep(cfg.model_preference,
                                                    cfg.fallback_workload)])
    /\ UNCHANGED <<cfg, run, steps, events, tasks, wk, calls, subs, sse>>

RouterNext == RouteWorkload \/ RouteStep

SpecRouter == RouterInit /\ [][RouterNext]_vars

\* ------------------------------------------- retry of a failed, canceled run

RerunConfigs == {Config("pair", 0, "invalid", TRUE, Defaults)}

\* The first node's only attempt failed the output schema and the reflection
\* left it failed; the worker waits for the model call of the second node
\* when POST /runs/{id}/retry without a step id resets the failed step row
\* and the failed node of the stored DAG.  The worker's own DAG still holds
\* the node as failed.  The interventions from here on are counted from 0.
RerunInit ==
    /\ cfg \in RerunConfigs
    /\ LET t == CHOOSE x \in TokenPairs : TRUE
           cost == Estimate(ForWorkload("planner"), t[1], t[2])
           failed == Node("failed", "schema_error", FALSE)
           running == Node("running", "none", FALSE)
           row == [NoStep EXCEPT !.attempts = 1]
       IN /\ run = [IncrementRunTotals([NoRun EXCEPT !.status = "running",
                                                      !.started = TRUE], cost)
                       EXCEPT !.dag = ResetFailedNodes(<<failed, running>>),
                              !.diagnostics = <<[reason |-> "step_failed",
                                                 failure_mode |-> "schema_error",
                                                 action_taken |-> "replanned"]>>]
          /\ ledger = <<cost @@ [node |-> 0]>>
          /\ steps = ResetFailedSteps(<<[row EXCEPT !.status = "failed",
                                                    !.error = "schema_error"],
                                        [row EXCEPT !.status = "running"]>>)
          /\ wk = [w \in Workers |->
                     IF w = 1
                     THEN [pc |-> "exec_call",
                           st |-> [NewState(NoRun) EXCEPT
                                      !.dag = <<failed, running>>, !.node = 2,
                                      !.attempts = 1, !.step_counter = 1,
                                      !.progress_made = TRUE]]
                     ELSE IdleWorker]
    /\ events = <<Ev("run_created", 0, 0, "none", "none"),
                  Ev("run_started", 0, 0, "none", "none"),
                  Ev("planning_started", 0, 0, "none", "none"),
                  Ev("planning_finished", 0, 0, "none", "none"),
                  Ev("step_started", 1, 1, "none", "none"),
                  Ev("step_failed", 1, 0, "none", "schema_error"),
                  Ev("replanned", 0, 0, "none", "schema_error"),
                  Ev("reflection", 0, 0, "replanned", "schema_error"),
                  Ev("step_started", 2, 1, "none", "none"),
                  Ev("run_retry_requested", 0, 0, "none", "none")>>
    /\ tasks = 1
    /\ calls = 0
    /\ subs = <<>>
    /\ sse = NoSse

\* the worker of a run whose DAG is stored and whose nodes have no retry: it
\* makes no planner call and sleeps no backoff
RerunStep(w) ==
    \/ Reflect(w)
    \/ RunLoopStart(w)
    \/ PlanBegin(w)
    \/ ExecuteBegin(w)
    \/ \E resp \in LLMResponses : ExecuteReturn(w, resp)
    \/ \E expired \in BOOLEAN : Monitor(w, expired)
    \/ Finish(w)
    \/ WorkerExit(w)

RerunNext ==
    \/ \E w \in Workers : RerunStep(w)
    \/ CancelRun
    \/ RetryRun(0)

\* A failed step, retries that name no step, and cancel requests.
SpecRerun == RerunInit /\ [][RerunNext]_vars

\* ------------------------------------------------- the executor on its inputs

ExecutorConfigs ==
    {Config(t, r, "invalid", tools, Defaults) :
        t \in {"chain", "pair", "orphan", "default", "fork"}, r \in {0, 1}, tools \in BOOLEAN}

\* The inputs of ExecutorService.execute_next: the worker's state dict with
\* every assignment of node statuses (retry_run, cancel and a restart leave
\* any of them behind), a step row for each node that was started, and the
\* model hint of an earlier reflection.
ExecutorInit ==
    /\ cfg \in ExecutorConfigs
    /\ \E dag \in [1..Templates[cfg.template].n -> {Node(x, "none", FALSE) : x \in NodeStatuses}],
          tried \in BOOLEAN, hint \in {"none", "expensive"} :
        /\ run = [NoRun EXCEPT !.status = "running", !.started = TRUE, !.dag = dag]
        /\ wk = [w \in Workers |->
                   IF w = 1
                   THEN [pc |-> "execute",
                         st |-> [NewState(NoRun) EXCEPT !.dag = dag,
                                                        !.reflection_model_preference = hint]]
                   ELSE IdleWorker]
        /\ steps = [n \in 1..Templates[cfg.template].n |->
                      IF dag[n].status = "skipped" \/ (dag[n].status = "pending" /\ ~tried)
                      THEN NoStep
                      ELSE [NoStep EXCEPT !.status = dag[n].status, !.attempts = 1,
                                          !.max_retries = cfg.retries]]
    /\ events = <<>>
    /\ ledger = <<>>
    /\ tasks = 1
    /\ calls = 0
    /\ subs = <<>>
    /\ sse = NoSse

ExecutorNext ==
    \E w \in Workers :
        \/ ExecuteBegin(w)
        \/ \E resp \in LLMResponses : ExecuteReturn(w, resp)
        \/ BackoffDone(w)

\* _execute_step_node applied once to each input.
SpecExecutor == ExecutorInit /\ [][ExecutorNext]_vars

\* ------------------------------------------------ reflection on its inputs

FailureModes == {"none", "timeout", "budget_risk", "schema_error", "low_confidence", "other"}

\* should_finish, finish_status and finish_reason as the monitor or an earlier
\* reflection left them
FinishDecisions ==
    {<<FALSE, "none", "none">>, <<TRUE, "failed", "timeout">>,
     <<TRUE, "canceled", "cancel_requested">>, <<TRUE, "completed", "all_steps_completed">>}

ReflectConfigs ==
    {Config(t, 0, "invalid", TRUE, Defaults) : t \in {"chain", "default", "fork"}}

\* The inputs of ReflectionService.reflect: the state dict with every
\* assignment of node statuses, reflection requested or not, each failure
\* mode and each finish decision; the stored run holds the same DAG.
ReflectInit ==
    /\ cfg \in ReflectConfigs
    /\ \E dag \in [1..Templates[cfg.template].n -> {Node(x, "none", FALSE) : x \in NodeStatuses}],
          needed \in BOOLEAN, fm \in FailureModes, fd \in FinishDecisions,
          rr \in {"none", "step_failed"} :
        /\ run = [NoRun EXCEPT !.status = "running", !.started = TRUE, !.dag = dag]
        /\ wk = [w \in Workers |->
                   IF w = 1
                   THEN [pc |-> "reflect",
                         st |-> [NewState(NoRun) EXCEPT !.dag = dag,
                                                        !.reflection_needed = needed,
                                                        !.reflection_reason = rr,
                                                        !.failure_mode = fm,
                                                        !.should_finish = fd[1],
                                                        !.finish_status = fd[2],
                                                        !.finish_reason = fd[3]]]
                   ELSE IdleWorker]
    /\ steps = [n \in 1..Templates[cfg.template].n |-> NoStep]
    /\ events = <<>>
    /\ ledger = <<>>
    /\ tasks = 1
    /\ calls = 0
    /\ subs = <<>>
    /\ sse = NoSse

ReflectNext == \E w \in Workers : Reflect(w)

\* _reflect_node applied once to each input.
SpecReflect == ReflectInit /\ [][ReflectNext]_vars

\* ------------------------------------------- a schema failure in a chain

\* the chain A -> B -> C of the default template, whose provider returns
\* content that fails the output schema, with and without a retry left
ReplanConfigs == {Config("default", r, "invalid", TRUE, Defaults) : r \in {0, 1}}

ReplanInit == InitWith(ReplanConfigs)

ReplanStep(w) ==
    \/ RunLoopStart(w)
    \/ PlanBegin(w)
    \/ \E resp \in LLMResponses : PlanReturn(w, resp)
    \/ ExecuteBegin(w)
    \/ \E resp \in LLMResponses : ExecuteReturn(w, resp)
    \/ BackoffDone(w)
    \/ \E expired \in BOOLEAN : Monitor(w, expired)
    \/ Reflect(w)
    \/ Finish(w)
    \/ WorkerExit(w)

ReplanNext ==
    \/ CreateRun
    \/ \E w \in Workers : ReplanStep(w)

\* One run of the chain from creation to the end of its worker, nobody
\* intervening.
SpecReplan == ReplanInit /\ [][ReplanNext]_vars

\* --------------------------------------------- retrying a run with skips

\* a fork: B depends on A, C on nothing; the provider returns content that
\* fails the output schema, with and without a retry left
SkipRetryConfigs == {Config("fork", r, "invalid", TRUE, Defaults) : r \in {0, 1}}

SkipRetryInit == InitWith(SkipRetryConfigs)

SkipRetryNext ==
    \/ CreateRun
    \/ \E w \in Workers : ReplanStep(w)
    \/ CancelRun
    \/ RetryRun(0)

\* A run whose only interventions are cancel requests and retry_run without
\* a step id.
SpecSkipRetry == SkipRetryInit /\ [][SkipRetryNext]_vars

\* ------------------------------------------------ retry requests of any kind

RetryRequestConfigs == {Config("chain", r, "invalid", TRUE, Defaults) : r \in {0, 1}}

\* the id of a step row that belongs to another run
OtherRunStep == Graph.n + 1

\* the step ids a retry request can carry: none, the empty string, the ids of
\* this run's step rows (created or not yet), a step of another run
RetryStepIds == {0, EmptyStepId, OtherRunStep} \cup NodeIds

RetryRequestInit == InitWith(RetryRequestConfigs)

RetryRequestNext ==
    \/ CreateRun
    \/ \E w \in Workers : ReplanStep(w)
    \/ \E sid \in RetryStepIds : RetryRequest(sid)

\* A run and the retry requests a client can send, before and after the run
\* exists.
SpecRetryRequest == RetryRequestInit /\ [][RetryRequestNext]_vars

\* ------------------------------------------------------------------- claims

OpenStatuses == {"pending", "running"}

\* C1: at most one worker loop of the run is active (not done) in every
\* reachable state, whatever the interleaving of start_run, retry_run,
\* resume_incomplete_runs and worker completion, and an active worker is the
\* one the registry holds, so that start_run finds it and creates no second.
AtMostOneWorker ==
    /\ Cardinality(ActiveWorkers) <= 1
    /\ \A w \in ActiveWorkers : tasks = w

\* retry_run called start_run while the worker of the run was in the middle
\* of its loop
StartRunWhileActive ==
    /\ Len(events) > 0
    /\ Last(events).type = "run_retry_requested"
    /\ \E w \in Workers : wk[w].pc \in {"exec_call", "backoff", "monitor", "end"}

\* C2: a run whose stored status is terminal has no step row left pending
\* or running, however the run finished.
TerminalStepsClosed ==
    run.status \in TerminalRunStatuses =>
        \A n \in DOMAIN steps : steps[n].status \notin OpenStatuses

\* C3: every step row of a run in a terminal status has
\* attempts <= max_retries + 1.
TerminalAttemptsBounded ==
    run.status \in TerminalRunStatuses =>
        \A n \in DOMAIN steps :
            steps[n].status # "absent" => steps[n].attempts <= steps[n].max_retries + 1

TotalsAgree ==
    run.total_tokens = run.total_prompt_tokens + run.total_completion_tokens

TotalsMonotone ==
    /\ run'.total_prompt_tokens >= run.total_prompt_tokens
    /\ run'.total_completion_tokens >= run.total_completion_tokens
    /\ run'.total_tokens >= run.total_tokens
    /\ run'.total_usd >= run.total_usd

TerminalLogClosed ==
    run.status \in TerminalRunStatuses =>
        /\ Len(events) > 0
        /\ events[1].type = "run_created"
        /\ Last(events).type = "run_finished"

\* C6: a consumer that replayed the stored events, subscribed and emptied
\* its queue has received every event of the run exactly once, in order.
StreamComplete ==
    (sse.pc = "tail" /\ Len(subs) > 0 /\ Len(subs[1]) = 0) =>
        sse.got = [i \in 1..Len(events) |-> i]

\* the stored status of the run when event i was stored, as far as being
\* terminal goes: a run_finished before it with no retry in between
TerminalBefore(i) ==
    \E k \in 1..(i - 1) :
        /\ events[k].type = "run_finished"
        /\ \A j \in (k + 1)..(i - 1) : events[j].type # "run_retry_requested"

\* event j is the first run_finished after event i
NextFinish(i, j) ==
    /\ j > i
    /\ events[j].type = "run_finished"
    /\ \A k \in (i + 1)..(j - 1) : events[k].type # "run_finished"

MonitorTick(w) ==
    /\ wk[w].pc = "monitor"
    /\ wk'[w].pc \in {"finish", "reflect", "execute", "raised"}

\* worker w takes its finish step
FinishTick(w) ==
    /\ wk[w].pc = "finish"
    /\ wk'[w].pc = "end"

\* a monitor tick that finds the cancel request stored decides
\* finish = canceled
CancelSeen ==
    \A w \in Workers :
        (MonitorTick(w) /\ run.status # "absent" /\ run.cancel_requested) =>
            /\ wk'[w].pc = "finish"
            /\ wk'[w].st.finish_status = "canceled"
            /\ wk'[w].st.finish_reason = "cancel_requested"

\* the finish of a worker that decided canceled stores it
CancelFinished ==
    \A w \in Workers :
        (FinishTick(w) /\ wk[w].st.finish_status = "canceled") =>
            /\ run'.status = "canceled"
            /\ ~run'.cancel_requested
            /\ Last(events') = Ev("run_finished", 0, 0, "canceled", "cancel_requested")
            /\ \A n \in DOMAIN steps : steps'[n].status \notin OpenStatuses
            /\ \A n \in DOMAIN run'.dag : run'.dag[n].status \notin OpenStatuses

FailingTick(w) ==
    /\ wk[w].pc \in {"execute", "exec_call"}
    /\ wk'[w].pc \in {"backoff", "monitor"}
    /\ Len(events') > Len(events)
    /\ Last(events').type \in {"step_retry_scheduled", "step_failed"}

\* worker w starts an attempt
StartingTick(w) ==
    /\ wk[w].pc = "execute"
    /\ wk'[w].pc \in {"exec_call", "backoff", "monitor"}
    /\ wk'[w].st.node # 0
    /\ Len(events') > Len(events)

\* an attempt is numbered one more than the stored attempts, 1 without a row
AttemptCounted ==
    \A w \in Workers :
        StartingTick(w) =>
            LET n == wk'[w].st.node IN
            wk'[w].st.attempts =
                (IF steps[n].status = "absent" THEN 0 ELSE steps[n].attempts) + 1

\* the outcome of the failed attempt number k of a node with max_retries m
RetryOutcome ==
    \A w \in Workers :
        FailingTick(w) =>
            LET n == wk'[w].st.node
                k == wk'[w].st.attempts
                m == Contract(n).max_retries
            IN IF k <= m
               THEN /\ steps'[n].status = "pending" /\ steps'[n].attempts = k
                    /\ wk'[w].st.dag[n].status = "pending"
                    /\ wk'[w].st.dag[n].last_error # "none"
                    /\ run'.dag[n] = wk'[w].st.dag[n]
                    /\ Last(events').type = "step_retry_scheduled"
               ELSE /\ steps'[n].status = "failed" /\ steps'[n].attempts = k
                    /\ wk'[w].st.dag[n].status = "failed"
                    /\ run'.dag[n] = wk'[w].st.dag[n]
                    /\ wk'[w].st.reflection_needed
                    /\ Last(events').type = "step_failed"

FailedOnlyWhenExhausted ==
    \A n \in DOMAIN steps :
        steps[n].status = "failed" => steps[n].attempts > steps[n].max_retries

\* C8: attempt k of a node is numbered stored attempts + 1; when it fails
\* with k <= max_retries the step row is pending with attempts = k and the
\* node pending with last_error set; when it fails with k > max_retries the
\* row and the node are failed and reflection_needed is set; a step row is
\* failed only with attempts > max_retries.
RetryPolicy ==
    /\ [][AttemptCounted]_vars
    /\ [][RetryOutcome]_vars
    /\ []FailedOnlyWhenExhausted

\* a node with max_retries = 1 failed twice: its row is failed with
\* attempts = 2 after a scheduled retry, and its worker is to reflect
RetriesExhausted ==
    \E w \in Workers, n \in DOMAIN steps :
        /\ steps[n].status = "failed" /\ steps[n].attempts = 2
        /\ steps[n].max_retries = 1
        /\ wk[w].pc = "monitor" /\ wk[w].st.node = n /\ wk[w].st.reflection_needed
        /\ \E i \in 1..Len(events) :
              events[i].type = "step_retry_scheduled" /\ events[i].node = n

\* retry_run(id, None) has just gone through on a run stored as failed
RetriedFailedRun ==
    /\ Len(events) >= 2
    /\ Last(events).type = "run_retry_requested"
    /\ Last(events).node = 0
    /\ events[Len(events) - 1].type = "run_finished"
    /\ events[Len(events) - 1].status = "failed"

\* C9: after retry_run(id, None) on a run in terminal status failed the run
\* eventually reaches a terminal status again.
RetryReachesTerminal == RetriedFailedRun ~> (run.status \in TerminalRunStatuses)

\* the types of the stored events that come from the worker's happy path
HappyTypes ==
    {"run_started", "planning_started", "planning_finished", "step_started",
     "step_finished", "run_finished"}

RECURSIVE TypesOf(_)
TypesOf(evs) ==
    IF evs = <<>> THEN <<>>
    ELSE (IF Head(evs).type \in HappyTypes THEN <<Head(evs).type>> ELSE <<>>)
         \o TypesOf(Tail(evs))

RECURSIVE StepPairs(_)
StepPairs(k) ==
    IF k = 0 THEN <<>> ELSE <<"step_started", "step_finished">> \o StepPairs(k - 1)

\* C10: with every model call returning valid output, no cancel, and budget,
\* timeout and max_steps not reached, a run that is terminal is completed,
\* every node and step row is completed with attempts = 1, and the worker's
\* events are run_started, planning_started, planning_finished, a
\* step_started and step_finished per node, run_finished, in that order.
HappyPathCompletes ==
    run.status \in TerminalRunStatuses =>
        /\ run.status = "completed"
        /\ \A n \in NodeIds :
              /\ steps[n].status = "completed" /\ steps[n].attempts = 1
              /\ run.dag[n].status = "completed"
        /\ TypesOf(events) =
              <<"run_started", "planning_started", "planning_finished">>
              \o StepPairs(Graph.n) \o <<"run_finished">>

\* the run is stored, is not cancel-requested and its total_usd has reached
\* the budget
OverBudget ==
    /\ run.status # "absent"
    /\ ~run.cancel_requested
    /\ run.total_usd >= cfg.budget_usd

\* what a monitor evaluation before the timeout decides for a worker about
\* to evaluate the monitor on a run over budget
BudgetDecision ==
    \A w \in Workers :
        (wk[w].pc = "monitor" /\ OverBudget) =>
            LET d == MonitorEvaluate(wk[w].st, run, FALSE)
            IN /\ d.should_finish
               /\ d.finish_status = "failed"
               /\ d.finish_reason = "budget_exceeded"
               /\ d.reflection_needed
               /\ d.failure_mode = "budget_risk"

\* a monitor tick on a run over budget takes the decision of the
\* evaluation and routes to finish
BudgetTick ==
    \A w \in Workers :
        (MonitorTick(w) /\ OverBudget) =>
            /\ wk'[w].pc = "finish"
            /\ wk'[w].st \in {MonitorEvaluate(wk[w].st, run, e) : e \in BOOLEAN}

\* no step is started on a run over budget
NoStepOverBudget ==
    OverBudget =>
        \A i \in (Len(events) + 1)..Len(events') : events'[i].type # "step_started"

\* C11: once the stored total_usd >= budget_usd (run stored, not
\* cancel-requested, timeout not reached) the next monitor evaluation decides
\* finish = failed with reason budget_exceeded, reflection_needed and
\* failure_mode budget_risk, the tick routes to finish, and no step_started
\* is emitted while the run is over budget, also when every node is completed.
BudgetCutoff ==
    /\ []BudgetDecision
    /\ [][BudgetTick]_vars
    /\ [][NoStepOverBudget]_vars

\* a run whose only node completed finished as failed on the budget it
\* reached exactly
BudgetStopsCompletedRun ==
    /\ run.status = "failed"
    /\ run.total_usd = cfg.budget_usd
    /\ Last(events) = Ev("run_finished", 0, 0, "failed", "budget_exceeded")
    /\ \A n \in DOMAIN run.dag : run.dag[n].status = "completed"

\* the decision of the monitor in a state dict
Decision(st) ==
    <<st.should_finish, st.finish_status, st.finish_reason, st.reflection_needed,
      st.failure_mode>>

\* evaluate applied to the state dict it has just returned, with the same
\* stored run and the same elapsed time, decides the same
MonitorRepeatable ==
    \A w \in Workers : wk[w].pc = "monitor" =>
        \A e \in BOOLEAN :
            ~MonitorRaises(wk[w].st, run, e) =>
                LET st1 == MonitorEvaluate(wk[w].st, run, e) IN
                /\ ~MonitorRaises(st1, run, e)
                /\ Decision(MonitorEvaluate(st1, run, e)) = Decision(st1)

\* a monitor tick stores nothing but the DAG _monitor_node persists
MonitorWritesNothing ==
    \A w \in Workers : MonitorTick(w) =>
        /\ [run' EXCEPT !.dag = run.dag] = run
        /\ UNCHANGED <<steps, events, ledger, subs>>
        /\ \E e \in BOOLEAN :
              \/ MonitorRaises(wk[w].st, run, e) /\ MonitorRaises(wk'[w].st, run', e)
              \/ /\ ~MonitorRaises(wk[w].st, run, e)
                 /\ wk'[w].st = MonitorEvaluate(wk[w].st, run, e)
                 /\ Decision(MonitorEvaluate(wk'[w].st, run', e)) = Decision(wk'[w].st)

\* C12: the monitor is pure: evaluated again on the state it returned, with
\* the same stored run and the same elapsed time, it takes the same decision
\* (should_finish, finish_status, finish_reason, reflection_needed,
\* failure_mode), and a monitor tick writes nothing to the store but the DAG
\* the orchestrator persists after the monitor returned.
MonitorPure == []MonitorRepeatable /\ [][MonitorWritesNothing]_vars

\* the monitor asked for a periodic reflection and cleared progress_made, so
\* that a second evaluation does not pass the periodic test again
MonitorReevaluated ==
    \E w \in Workers :
        /\ wk[w].pc = "reflect"
        /\ wk[w].st.reflection_reason = "periodic"
        /\ ~wk[w].st.progress_made
        /\ wk[w].st.failure_mode = "low_confidence"
        /\ MonitorEvaluate(wk[w].st, run, FALSE) = wk[w].st

\* worker w enters plan with a DAG of at least one node stored
PlanWithDag(w) ==
    /\ wk[w].pc = "plan"
    /\ wk'[w].pc \in {"monitor", "plan_call", "raised"}
    /\ run.status # "absent"
    /\ Len(run.dag) > 0

PlanReturnsStoredDag ==
    \A w \in Workers : PlanWithDag(w) =>
        /\ wk'[w].pc = "monitor"
        /\ wk'[w].st = [wk[w].st EXCEPT !.dag = run.dag]
        /\ UNCHANGED <<run, steps, events, ledger, subs>>

\* once a DAG is stored no step stores a planning event or a planner's
\* ledger row, and only a worker's own step or a retry writes the DAG
NeverReplans ==
    (run.status # "absent" /\ Len(run.dag) > 0) =>
        /\ \A i \in (Len(events) + 1)..Len(events') :
               events'[i].type \notin {"planning_started", "planning_finished"}
        /\ \A i \in (Len(ledger) + 1)..Len(ledger') : ledger'[i].node # 0
        /\ Len(run'.dag) = Len(run.dag)

\* C13: plan invoked for a run whose stored DAG has at least one node
\* returns that DAG and changes nothing: no planning event, no model call, no
\* ledger row, no change of the run totals or of any stored row; so a run
\* with a DAG is never planned again by resume or retry.
PlannerIdempotent == [][PlanReturnsStoredDag]_vars /\ [][NeverReplans]_vars

\* the worker of a retried or resumed run came through plan with the stored
\* DAG, the completed node still completed
PlanSkipped ==
    \E w \in Workers :
        /\ wk[w].pc = "monitor"
        /\ Last(events).type = "run_started"
        /\ Len(run.dag) > 0
        /\ wk[w].st.dag = run.dag
        /\ \E n \in DOMAIN run.dag : run.dag[n].status = "completed"
        /\ Cardinality({i \in 1..Len(events) : events[i].type = "planning_started"}) = 1

\* the step stores a run_retry_requested event: retry_run went through
RetryTick ==
    /\ Len(events') = Len(events) + 1
    /\ Last(events').type = "run_retry_requested"

\* C14: a run in a terminal status is immutable except through retry_run: no
\* other step changes a stored attribute of the run (status, DAG,
\* cancel_requested, totals, diagnostics) or of its step rows.
TerminalImmutable ==
    [][run.status \in TerminalRunStatuses => (RetryTick \/ UNCHANGED <<run, steps>>)]_vars

ClosedStepStatuses == {"completed", "skipped", "canceled"}

\* the step is a retry_run that names the step of node n and went through
StepRetryTick(n) == RetryTick /\ Last(events').node = n

\* a closed step row is left as it is, or reset by a retry that names it
ClosedStepStays ==
    \A n \in DOMAIN steps : steps[n].status \in ClosedStepStatuses =>
        \/ /\ steps'[n] = steps[n]
           /\ \A i \in (Len(events) + 1)..Len(events') :
                  ~(events'[i].type = "step_started" /\ events'[i].node = n)
        \/ /\ StepRetryTick(n)
           /\ steps'[n] = [steps[n] EXCEPT !.status = "pending", !.attempts = 0,
                                           !.error = "none", !.output = FALSE,
                                           !.cost = FALSE]

\* C15: a step whose status is completed, skipped or canceled is never
\* executed again (no new step_started for its node, its attempts and every
\* other attribute unchanged) unless a retry_run that names the step resets
\* it, and then it is pending with attempts 0 and output, error and cost
\* cleared.
ClosedStepNotRerun == [][ClosedStepStays]_vars

BufferBounded == \A i \in DOMAIN subs : Len(subs[i]) <= QueueMaxsize

\* the ids of the events a step publishes
Published == [k \in 1..(Len(events') - Len(events)) |-> Len(events) + k]

\* the last QueueMaxsize entries of q, all of q when it is shorter
Newest(q) ==
    IF Len(q) <= QueueMaxsize THEN q ELSE SubSeq(q, Len(q) - QueueMaxsize + 1, Len(q))

\* a publishing step leaves in every subscriber queue what it held followed
\* by the published events, less exactly the oldest entries that did not fit
PublishDropsHead ==
    Len(events') > Len(events) =>
        /\ DOMAIN subs' = DOMAIN subs
        /\ \A i \in DOMAIN subs :
              /\ subs'[i] = Newest(subs[i] \o Published)
              /\ Last(subs'[i]) = Len(events')

Increasing(q) == \A i \in 1..(Len(q) - 1) : q[i] < q[i + 1]

\* what the consumer received and what waits in its queue are published
\* events in publish order, none twice
ReceivedInOrder ==
    /\ Increasing(sse.got)
    /\ \A i \in DOMAIN sse.got : sse.got[i] \in 1..Len(events)
    /\ \A i \in DOMAIN subs :
          /\ Increasing(subs[i])
          /\ Len(subs[i]) > 0 /\ Len(sse.got) > 0 => Last(sse.got) < Head(subs[i])

\* C16: a subscriber queue never holds more than 256 events; publish on a
\* full queue removes exactly the oldest entry and enqueues the new event, so
\* the published event is the newest entry of every subscriber after every
\* publish; what a subscriber receives is a subsequence of the published
\* events in publish order.
BrokerDropHead == []BufferBounded /\ [][PublishDropsHead]_vars /\ []ReceivedInOrder

\* the consumer received an event published after one it never got
ConsumerMissedEvent ==
    \E i \in 1..(Len(sse.got) - 1) : sse.got[i + 1] > sse.got[i] + 1

\* C17: publish never waits for a consumer: whatever the fill of the
\* subscriber queues, every step of a producer that publishes (the cancel
\* request, the worker's plan, execute, reflect, finish and exception steps)
\* can be taken.
PublishNeverWaits ==
    /\ calls < MaxCalls => ENABLED CancelRun
    /\ \A w \in Workers :
          /\ wk[w].pc = "plan_call" => \A resp \in LLMResponses : ENABLED PlanReturn(w, resp)
          /\ wk[w].pc = "execute" => ENABLED ExecuteBegin(w)
          /\ wk[w].pc = "exec_call" => \A resp \in LLMResponses : ENABLED ExecuteReturn(w, resp)
          /\ wk[w].pc = "reflect" => ENABLED Reflect(w)
          /\ wk[w].pc = "finish" => ENABLED Finish(w)
          /\ wk[w].pc = "raised" => ENABLED HandleException(w)

\* the worker finished its run into a full queue of a consumer that has
\* read nothing since it subscribed
FinishedPastStalledConsumer ==
    /\ sse.pc = "tail"
    /\ sse.got = <<1, 2, 3>>
    /\ Len(subs) = 1
    /\ Len(subs[1]) = QueueMaxsize
    /\ Head(subs[1]) > 4
    /\ Last(events).type = "run_finished"
    /\ Last(subs[1]) = Len(events)
    /\ \A w \in Workers : TaskDone(wk, w)

\* the process restarts: every task is gone and resume_incomplete_runs ran
RestartTick == calls' = calls + 1 /\ subs' = <<>> /\ sse' = NoSse /\ run' = run

\* resume starts exactly one worker for a created or running run, none for
\* a terminal run
ResumeStartsWorker ==
    RestartTick =>
        /\ run.status \in {"created", "running"} =>
              /\ Cardinality({w \in Workers : wk'[w].pc = "start"}) = 1
              /\ tasks' \in Workers /\ wk'[tasks'].pc = "start"
        /\ run.status \in TerminalRunStatuses =>
              /\ \A w \in Workers : wk'[w].pc = "idle"
              /\ tasks' = 0
        /\ \A w \in Workers : wk'[w].pc \in {"start", "idle"}

Resumed == calls > 0 /\ run.status \in {"created", "running"}

\* C18: after a restart at any point of the worker's loop, with a node and
\* its step marked running in the store or not, resume_incomplete_runs starts
\* a worker for the run when its status is created or running and none when
\* it is terminal, and the resumed run eventually reaches a terminal status.
RunsSurviveRestart ==
    /\ [][ResumeStartsWorker]_vars
    /\ (Resumed ~> run.status \in TerminalRunStatuses)

\* the process stopped while a step was running; the resumed run reached a
\* terminal status
ResumedRunFinished ==
    /\ calls > 0
    /\ run.status \in TerminalRunStatuses
    /\ Last(events).type = "run_finished"
    /\ \E n \in DOMAIN steps : steps[n].status = "running"
    /\ \A w \in Workers : TaskDone(wk, w)

\* the model tier the routing table gives each workload
WorkloadDefault ==
    [planner |-> "cheap", executor |-> "default", reflection |-> "expensive",
     synthesis |-> "expensive"]

\* C19: for_workload returns the cheap model for planner, the expensive
\* model for reflection and synthesis and the default model for executor;
\* for_step returns the cheap, default or expensive model when
\* model_preference is exactly that word, and for every other value, None
\* included, the workload default of the fallback workload.
RoutingTable ==
    \A i \in DOMAIN ledger :
        /\ ledger[i].call = "for_workload" =>
              ledger[i].model = WorkloadDefault[cfg.fallback_workload]
        /\ ledger[i].call = "for_step" =>
              /\ cfg.model_preference = "cheap" => ledger[i].model = "cheap"
              /\ cfg.model_preference = "default" => ledger[i].model = "default"
              /\ cfg.model_preference = "expensive" => ledger[i].model = "expensive"
              /\ cfg.model_preference \notin {"cheap", "default", "expensive"} =>
                    ledger[i].model = WorkloadDefault[cfg.fallback_workload]

\* for_step with no preference fell back to the default of a reflection
\* workload
FellBackToWorkload ==
    \E i \in DOMAIN ledger :
        /\ ledger[i].call = "for_step"
        /\ cfg.model_preference = "none"
        /\ cfg.fallback_workload = "reflection"
        /\ ledger[i].model = "expensive"

\* the finish rules in the order of the precedence list, each with its
\* condition on the state dict st, the stored run r and the elapsed time
FinishRules(st, r, expired) ==
    LET ss == Statuses(st.dag)
        runnable == \E n \in DOMAIN st.dag :
                        /\ st.dag[n].status = "pending"
                        /\ \A d \in Graph.deps[n] : st.dag[d].status = "completed"
    IN << [holds |-> r.status = "absent", status |-> "failed", reason |-> "run_missing"],
          [holds |-> r.cancel_requested, status |-> "canceled", reason |-> "cancel_requested"],
          [holds |-> expired, status |-> "failed", reason |-> "timeout"],
          [holds |-> r.total_usd >= cfg.budget_usd, status |-> "failed",
           reason |-> "budget_exceeded"],
          [holds |-> ss # {} /\ \A x \in ss : x \in {"completed", "skipped"},
           status |-> "completed", reason |-> "all_steps_completed"],
          [holds |-> ~runnable /\ "running" \notin ss /\ "pending" \in ss,
           status |-> "failed", reason |-> "dependency_deadlock"],
          [holds |-> "pending" \notin ss /\ "running" \notin ss /\ "failed" \in ss,
           status |-> "failed", reason |-> "steps_failed"],
          [holds |-> st.step_counter >= cfg.max_steps, status |-> "failed",
           reason |-> "max_steps_exceeded"] >>

\* the rules of a list that hold
Matching(rules) == {i \in DOMAIN rules : rules[i].holds}

\* C20: the monitor's finish status and reason are those of the first rule
\* that holds, in the order run missing, cancel requested, timeout, budget,
\* all nodes completed or skipped (of a non-empty DAG), dependency deadlock,
\* steps failed, max steps; when none holds the monitor does not finish the
\* run, whether or not it asks for the periodic reflection.
MonitorPrecedence ==
    \A w \in Workers : wk[w].pc = "monitor" =>
        \A e \in BOOLEAN :
            ~MonitorRaises(wk[w].st, run, e) =>
                LET rules == FinishRules(wk[w].st, run, e)
                    d == MonitorEvaluate(wk[w].st, run, e)
                IN IF Matching(rules) = {}
                   THEN /\ d.should_finish = wk[w].st.should_finish
                        /\ d.finish_status = wk[w].st.finish_status
                        /\ d.finish_reason = wk[w].st.finish_reason
                   ELSE LET first == CHOOSE i \in Matching(rules) :
                                        \A j \in Matching(rules) : i <= j
                        IN /\ d.should_finish
                           /\ d.finish_status = rules[first].status
                           /\ d.finish_reason = rules[first].reason

\* the monitor finished a run as canceled although its budget was used up,
\* its nodes were all completed and its step counter was at max_steps
CancelWonOverLaterRules ==
    \E w \in Workers :
        /\ wk[w].pc = "finish"
        /\ wk[w].st.finish_status = "canceled"
        /\ wk[w].st.finish_reason = "cancel_requested"
        /\ run.cancel_requested
        /\ run.total_usd >= cfg.budget_usd
        /\ Statuses(wk[w].st.dag) = {"completed"}
        /\ wk[w].st.step_counter >= cfg.max_steps

\* the positions of a worker inside the graph
GraphPcs == {"plan", "plan_call", "execute", "exec_call", "backoff", "monitor",
             "reflect", "finish"}

\* worker w moves on by a step of its own (the process does not restart)
OwnStep(w) ==
    /\ wk'[w] # wk[w]
    /\ wk[w].pc \notin {"idle", "done"}
    /\ wk'[w].pc \notin {"idle", "start"}

\* the node that follows each node
LoopShape ==
    \A w \in Workers : OwnStep(w) =>
        LET p == wk[w].pc
            q == wk'[w].pc
            st1 == wk'[w].st
        IN /\ q = "plan" <=> p = "start"
           /\ p = "start" => q \in {"plan", "done"}
           /\ p = "plan" => q \in {"plan_call", "monitor"}
           /\ p = "plan_call" => q \in {"monitor", "raised"}
           /\ p = "execute" => q \in {"exec_call", "backoff", "monitor"}
           /\ p = "exec_call" => q \in {"backoff", "monitor"}
           /\ p = "backoff" => q = "monitor"
           /\ p = "reflect" => q = "monitor"
           /\ p = "monitor" =>
                 \/ q = "raised"
                 \/ q = (IF st1.should_finish THEN "finish"
                         ELSE IF st1.reflection_needed THEN "reflect"
                         ELSE "execute")
           /\ p = "finish" => q = "end"
           /\ p = "end" => q = "done"
           /\ p = "raised" => q = "done"

\* should_finish is not reset while the worker is in the graph
ShouldFinishKept ==
    \A w \in Workers :
        (OwnStep(w) /\ wk[w].st.should_finish /\ wk'[w].pc \in GraphPcs) =>
            wk'[w].st.should_finish

\* a worker whose state has should_finish set is at the monitor, at finish
\* or past it: never at execute or reflect
ShouldFinishStops ==
    \A w \in Workers :
        wk[w].st.should_finish => wk[w].pc \in {"monitor", "finish", "end", "raised"}

\* a worker reaches END through finish only
EndAfterFinish ==
    \A w \in Workers : (OwnStep(w) /\ wk'[w].pc = "end") => wk[w].pc = "finish"

\* C21 as stated, the part about finish: every worker that entered the graph
\* runs finish exactly once, so a worker is done only after END.
FinishExactlyOnce ==
    [][\A w \in Workers :
          (OwnStep(w) /\ wk[w].pc \in GraphPcs \cup {"end", "raised"}
             /\ wk'[w].pc = "done") => wk[w].pc = "end"]_vars

\* C21: a worker's node sequence starts with plan; plan, execute and reflect
\* are followed by monitor; after monitor comes finish if should_finish, else
\* reflect if reflection_needed, else execute; finish is followed by END and
\* no node follows END, so finish runs at most once per worker, and a node
\* that raises ends the sequence without finish.  should_finish is never
\* reset: no execute or reflect runs once it is set.
ControlLoopShape ==
    /\ [][LoopShape]_vars
    /\ [][ShouldFinishKept]_vars
    /\ [][EndAfterFinish]_vars
    /\ []ShouldFinishStops

\* a worker went through reflect, back to the monitor and through finish
ReflectedThenFinished ==
    \E w \in Workers :
        /\ wk[w].pc = "end"
        /\ wk[w].st.should_finish
        /\ Last(events).type = "run_finished"
        /\ \E i \in 1..Len(events) : events[i].type = "reflection"

\* the nodes of dag that are pending with every depends_on entry present
\* and completed
Ready(dag) ==
    {n \in DOMAIN dag :
        /\ dag[n].status = "pending"
        /\ \A d \in Graph.deps[n] :
              /\ d \in DOMAIN dag
              /\ dag[d].status \notin {"pending", "running", "failed", "skipped", "canceled"}}

\* worker w runs one executor tick up to its first suspension
ExecutorTick(w) == wk[w].pc = "execute" /\ OwnStep(w)

\* the events a step appends
NewEvents == {events'[i] : i \in (Len(events) + 1)..Len(events')}

\* the tick takes the first ready node, and only that node
SelectsFirstReady(w) ==
    LET st == wk[w].st
        st1 == wk'[w].st
        n == CHOOSE x \in Ready(st.dag) : \A m \in Ready(st.dag) : x <= m
    IN /\ st1.node = n
       /\ st1.progress_made
       /\ \E e \in NewEvents : e.type = "step_started" /\ e.node = n
       /\ steps'[n].status # "absent"
       /\ \A m \in DOMAIN st.dag \ {n} : st1.dag[m] = st.dag[m] /\ steps'[m] = steps[m]
       /\ wk'[w].pc = "exec_call" => st1.dag[n].status = "running"

\* the tick that finds no ready node clears progress_made and does nothing else
IdleTick(w) ==
    /\ wk'[w] = [pc |-> "monitor", st |-> [wk[w].st EXCEPT !.progress_made = FALSE]]
    /\ UNCHANGED <<run, steps, events, ledger, tasks, subs>>

\* a node enters running, in the worker's DAG and in the stored one, only with
\* every dependency completed
RunningNeedsDeps(w) ==
    LET st == wk[w].st
        st1 == wk'[w].st
    IN \A m \in DOMAIN st1.dag :
          (st1.dag[m].status = "running" /\ st.dag[m].status # "running") =>
              /\ \A d \in Graph.deps[m] : d \in DOMAIN st.dag /\ st.dag[d].status = "completed"
              /\ run'.dag = st1.dag

\* C22: an executor tick selects the first node in declaration order that is
\* pending with every dependency completed; no node becomes running while a
\* dependency is pending, running, failed, skipped, canceled or absent; a tick
\* that finds no such node sets progress_made to false and changes nothing
\* else.
DependencyAwareSelection ==
    [][\A w \in Workers : ExecutorTick(w) =>
          /\ IF Ready(wk[w].st.dag) = {} THEN IdleTick(w) ELSE SelectsFirstReady(w)
          /\ RunningNeedsDeps(w)]_vars

\* an executor tick found nothing to run: the second node of the pair is
\* completed, the first is still marked running by a worker that is gone
TickFoundNothing ==
    \E w \in Workers :
        /\ cfg.template = "pair"
        /\ wk[w].pc = "monitor"
        /\ wk[w].st.step_counter = 1
        /\ ~wk[w].st.progress_made
        /\ wk[w].st.dag[1].status = "running"
        /\ wk[w].st.dag[2].status = "completed"

\* a tick passed over a pending node whose dependency had failed and took a
\* later node
PassedOverBlockedNode ==
    \E w \in Workers :
        /\ cfg.template = "fork"
        /\ wk[w].pc = "exec_call"
        /\ wk[w].st.node = 3
        /\ wk[w].st.dag[1].status = "failed"
        /\ wk[w].st.dag[2] = Node("pending", "none", FALSE)
        /\ wk[w].st.dag[3].status = "running"

\* the position of the last run_started event, 0 when there is none
LastStart ==
    LET is == {i \in DOMAIN events : events[i].type = "run_started"}
    IN IF is = {} THEN 0 ELSE CHOOSE i \in is : \A j \in is : j <= i

\* the step_started events of the worker loop that started last
StartedInLoop ==
    Cardinality({i \in (LastStart + 1)..Len(events) : events[i].type = "step_started"})

\* an own step of worker w that ends an executor tick which had selected a node
TickEnds(w) ==
    \/ wk[w].pc = "exec_call"
    \/ wk[w].pc = "execute" /\ Ready(wk[w].st.dag) # {} /\ wk'[w].pc # "exec_call"

\* step_counter goes up by one when such a tick ends and changes nowhere else
StepCounted ==
    \A w \in Workers :
        (OwnStep(w) /\ wk[w].pc \in GraphPcs) =>
            wk'[w].st.step_counter =
                wk[w].st.step_counter + (IF TickEnds(w) THEN 1 ELSE 0)

\* the worker in the graph has counted every step it started, but the one
\* in flight
CounterMatchesStarts ==
    \A w \in Workers :
        wk[w].pc \in GraphPcs =>
            StartedInLoop = wk[w].st.step_counter + (IF wk[w].pc = "exec_call" THEN 1 ELSE 0)

\* C23: step_counter increases by exactly one on every executor tick that
\* selects a node, whether the attempt succeeds, is scheduled for a retry or
\* fails for good, and the step_started events of one worker loop never
\* outnumber constraints.max_steps.
MaxStepsBoundsWork ==
    /\ [][StepCounted]_vars
    /\ [](CounterMatchesStarts /\ StartedInLoop <= cfg.max_steps)

\* a worker loop used up max_steps with a retried attempt and was stopped
StoppedAtMaxSteps ==
    \E w \in Workers :
        /\ wk[w].pc = "finish"
        /\ wk[w].st.finish_reason = "max_steps_exceeded"
        /\ StartedInLoop = cfg.max_steps
        /\ \E i \in DOMAIN events : events[i].type = "step_retry_scheduled"

\* worker w runs the reflect node
ReflectTick(w) == wk[w].pc = "reflect" /\ OwnStep(w)

\* the failure mode reflect works with: "other" when the state has none
ModeOf(st) == IF st.failure_mode = "none" THEN "other" ELSE st.failure_mode

\* the action the table gives each failure mode
ActionTable ==
    [m \in FailureModes \ {"none"} |->
        CASE m \in {"timeout", "budget_risk"} -> "terminated"
          [] m = "schema_error" -> "replanned"
          [] m = "low_confidence" -> "adjusted_parameters"
          [] OTHER -> "terminated"]

\* the reflection events a step appends
NewReflections == {i \in (Len(events) + 1)..Len(events') : events'[i].type = "reflection"}

\* C24: reflection maps timeout and budget_risk to terminated, schema_error
\* to replanned, low_confidence to adjusted_parameters and every other failure
\* mode, an unset one included, to terminated; terminated sets should_finish
\* and, unless finish_status is already failed or canceled, finish_status
\* failed with finish_reason reflection_terminated.
ReflectionActionMapping ==
    [][\A w \in Workers : (ReflectTick(w) /\ wk[w].st.reflection_needed) =>
          LET st == wk[w].st
              st1 == wk'[w].st
              action == ActionTable[ModeOf(st)]
          IN /\ Last(run'.diagnostics).action_taken = action
             /\ \A i \in NewReflections : events'[i].status = action
             /\ action = "terminated" =>
                   /\ st1.should_finish
                   /\ IF st.finish_status \in {"failed", "canceled"}
                      THEN /\ st1.finish_status = st.finish_status
                           /\ st1.finish_reason = st.finish_reason
                      ELSE /\ st1.finish_status = "failed"
                           /\ st1.finish_reason = "reflection_terminated"
             /\ action # "terminated" =>
                   /\ st1.should_finish = st.should_finish
                   /\ st1.finish_status = st.finish_status
                   /\ st1.finish_reason = st.finish_reason]_vars

\* reflection terminated a run whose failure mode was unset or outside the
\* table, and which had no finish decision yet
TerminatedOnOtherMode ==
    \E w \in Workers :
        /\ wk[w].pc = "monitor"
        /\ Len(run.diagnostics) = 1
        /\ run.diagnostics[1].failure_mode = "other"
        /\ run.diagnostics[1].action_taken = "terminated"
        /\ wk[w].st.finish_reason = "reflection_terminated"

\* the diagnostic of a reflection on state st
ExpectedDiagnostic(st) ==
    [reason |-> IF st.reflection_reason = "none" THEN "reflection_requested"
                ELSE st.reflection_reason,
     failure_mode |-> ModeOf(st),
     action_taken |-> ActionTable[ModeOf(st)]]

\* C25: a reflection with reflection_needed set, whatever its action, appends
\* exactly one diagnostic {reason, failure_mode, action_taken}, emits exactly
\* one reflection event and leaves reflection_needed false and
\* reflection_reason and failure_mode unset; with reflection_needed unset the
\* state dict, the diagnostics and the event log stay as they were.
ReflectionBookkeeping ==
    [][\A w \in Workers : ReflectTick(w) =>
          LET st == wk[w].st
              st1 == wk'[w].st
          IN IF st.reflection_needed
             THEN /\ run'.diagnostics = Append(run.diagnostics, ExpectedDiagnostic(st))
                  /\ Cardinality(NewReflections) = 1
                  /\ ~st1.reflection_needed
                  /\ st1.reflection_reason = "none"
                  /\ st1.failure_mode = "none"
             ELSE /\ st1 = st
                  /\ run' = [run EXCEPT !.dag = st.dag]
                  /\ UNCHANGED <<steps, events, ledger, subs>>]_vars

\* a reflection that replanned: one diagnostic, a replanned event and one
\* reflection event, the request cleared
ReplannedRecorded ==
    \E w \in Workers :
        /\ wk[w].pc = "monitor"
        /\ ~wk[w].st.reflection_needed
        /\ wk[w].st.failure_mode = "none"
        /\ Len(run.diagnostics) = 1
        /\ run.diagnostics[1].action_taken = "replanned"
        /\ Len(events) = 2
        /\ events[1].type = "replanned"
        /\ events[2].type = "reflection"

\* node n is reached from node f along one or more edges
Descends(n, f) ==
    \E k \in 1..Graph.n : \E path \in [0..k -> NodeIds] :
        /\ path[0] = f
        /\ path[k] = n
        /\ \A i \in 0..(k - 1) : <<path[i], path[i + 1]>> \in Graph.edges

\* the failed nodes of dag
FailedIn(dag) == {n \in DOMAIN dag : dag[n].status = "failed"}

\* the failed node ids in ascending order
IsSortedFailed(seq, dag) ==
    /\ Len(seq) = Cardinality(FailedIn(dag))
    /\ {seq[i] : i \in DOMAIN seq} = FailedIn(dag)
    /\ \A i \in 1..(Len(seq) - 1) : seq[i] < seq[i + 1]

\* C26: on a replanned reflection the nodes that change are exactly the
\* pending nodes reached along the edges from some failed node; each becomes
\* skipped with last_error.details.upstream the sorted list of all failed
\* node ids; failed nodes, descendants that are not pending and nodes that
\* descend from no failed node stay as they are.
SkipPropagation ==
    [][\A w \in Workers :
          (ReflectTick(w) /\ wk[w].st.reflection_needed
             /\ ActionTable[ModeOf(wk[w].st)] = "replanned") =>
          LET dag == wk[w].st.dag
              dag1 == wk'[w].st.dag
          IN /\ run'.dag = dag1
             /\ steps' = steps
             /\ \A n \in DOMAIN dag :
                   IF dag[n].status = "pending" /\ \E f \in FailedIn(dag) : Descends(n, f)
                   THEN /\ dag1[n].status = "skipped"
                        /\ dag1[n].last_error = "execution_error"
                        /\ IsSortedFailed(dag1[n].upstream, dag)
                        /\ dag1[n].last_output = dag[n].last_output
                   ELSE dag1[n] = dag[n]]_vars

\* the third node of the three-node chain was skipped through a completed
\* second node, for the failure of the first
SkippedThroughCompleted ==
    \E w \in Workers :
        /\ cfg.template = "default"
        /\ wk[w].pc = "monitor"
        /\ Len(run.diagnostics) = 1
        /\ wk[w].st.dag[1].status = "failed"
        /\ wk[w].st.dag[2].status = "completed"
        /\ wk[w].st.dag[3].status = "skipped"
        /\ wk[w].st.dag[3].upstream = <<1>>

\* A failed with schema_error, its retries used up
SchemaFailureOfA ==
    /\ Len(run.dag) = 3
    /\ run.dag[1].status = "failed"
    /\ run.dag[1].last_error = "schema_error"

\* C27: in the chain A -> B -> C, when A fails with schema_error and no
\* retries remain, the run does not finish while B and C are still pending:
\* a replanned reflection has run before and has skipped them.
SchemaReplanBeforeFinish ==
    (SchemaFailureOfA /\ run.status \in TerminalRunStatuses) =>
        /\ run.dag[2].status = "skipped"
        /\ run.dag[3].status = "skipped"
        /\ \E i \in DOMAIN events : events[i].type = "replanned"

\* the adjusted_parameters reflections of the worker loop that started last
Adjustments ==
    {i \in (LastStart + 1)..Len(events) :
        events[i].type = "reflection" /\ events[i].status = "adjusted_parameters"}

\* the executor ticks started since the last of them
TicksSinceAdjustment ==
    LET last == CHOOSE i \in Adjustments : \A j \in Adjustments : j <= i
    IN Cardinality({j \in (last + 1)..Len(events) : events[j].type = "step_started"})

\* C28: the model hint of an adjusted_parameters reflection is used by exactly
\* the next executor tick; every later tick of the same worker resolves its
\* model from the contract's model_preference again.
HintIsOneShot ==
    [][(Len(ledger') = Len(ledger) + 1 /\ Last(ledger').node # 0) =>
          LET e == Last(ledger')
              hinted == Adjustments # {} /\ TicksSinceAdjustment = 1
          IN e.model = ForStep(IF hinted THEN "expensive"
                               ELSE Contract(e.node).model_preference, "executor")]_vars

\* the step is an accepted retry_run(id, none)
RetryNoneTick ==
    \E e \in NewEvents : e.type = "run_retry_requested" /\ e.node = 0

\* retry_run(id, none) resets the failed nodes and the failed step rows and
\* leaves every other node and row as it is
RetryResetsFailedOnly ==
    RetryNoneTick =>
        /\ \A n \in DOMAIN run.dag :
              IF run.dag[n].status = "failed"
              THEN run'.dag[n].status = "pending"
              ELSE run'.dag[n] = run.dag[n]
        /\ \A n \in DOMAIN steps :
              IF steps[n].status = "failed"
              THEN steps'[n].status = "pending" /\ steps'[n].attempts = steps[n].attempts
              ELSE steps'[n] = steps[n]

\* a skipped node stays skipped and is never started
SkippedStays ==
    \A n \in DOMAIN run.dag :
        run.dag[n].status = "skipped" =>
            /\ run'.dag[n].status = "skipped"
            /\ \A e \in NewEvents : ~(e.type = "step_started" /\ e.node = n)
            /\ steps'[n] = steps[n]

\* C29: retry_run(id, none) changes only failed nodes and failed steps;
\* skipped, completed and canceled ones keep their status, so skipped
\* descendants stay skipped and never execute.
RetryKeepsSkips == [][RetryResetsFailedOnly /\ SkippedStays]_vars

\* a retried run reached completed with a node that never ran: B was skipped
\* for A's failure, A succeeded after the retry
CompletedWithSkippedNode ==
    /\ run.status = "completed"
    /\ \E i \in DOMAIN events : events[i].type = "run_retry_requested"
    /\ run.dag[1].status = "completed"
    /\ run.dag[2].status = "skipped"
    /\ steps[2].status = "absent"
    /\ \A i \in DOMAIN events : ~(events[i].type = "step_started" /\ events[i].node = 2)

\* the request names no run of the store, or carries a step id that is not
\* the id of a step row of the run
NotRetryable(sid) == run.status = "absent" \/ (sid # 0 /\ ~StepOfRun(sid))

\* nothing stored and no worker changes
NothingRetried == UNCHANGED <<run, steps, events, ledger, tasks, wk, subs>>

\* C30: retry_run returns false and leaves the run's status, ended_at,
\* cancel_requested, DAG, step rows, events and the worker registry unchanged
\* when the run does not exist or the step id does not identify a step of
\* that run, a step id of a different run included.
RetryRejectsUnknown ==
    [][\A sid \in RetryStepIds :
          (RetryRequest(sid) /\ NotRetryable(sid)) => NothingRetried]_vars

\* the same for every step id but the empty string
RetryRejectsUnknownIds ==
    [][\A sid \in RetryStepIds \ {EmptyStepId} :
          (RetryRequest(sid) /\ NotRetryable(sid)) => NothingRetried]_vars

\* node n was reset by retry_run(id, step_id) and not started since: its row
\* is pending with attempts 0 and the stored node is pending and cleared
StepWasReset(n) ==
    /\ n \in DOMAIN run.dag
    /\ steps[n].status = "pending"
    /\ steps[n].attempts = 0
    /\ run.dag[n] = Node("pending", "none", FALSE)

\* C31: after retry_run(id, step_id) returned true the named node is stored
\* pending and cleared, its row is pending with attempts 0, and it stays so
\* until it is executed again (or canceled or skipped): no DAG persist of a
\* worker that is still active undoes the reset.
StepResetSurvives ==
    [][\A n \in NodeIds :
          StepWasReset(n) =>
              \/ run'.dag[n] = run.dag[n]
              \/ run'.dag[n].status \in {"running", "canceled", "skipped"}]_vars

\* worker w runs the finish node
FinishNodeTick(w) == wk[w].pc = "finish" /\ wk'[w].pc = "end"

\* the status the finish node stores for state st
FinishStatusOf(st) == IF st.finish_status = "none" THEN "failed" ELSE st.finish_status

\* a canceled finish closes what is open and leaves the rest
ClosesOpenWork(w) ==
    LET dag == wk[w].st.dag IN
    /\ \A n \in DOMAIN dag :
          IF dag[n].status \in {"pending", "running"}
          THEN /\ run'.dag[n].status = "canceled"
               /\ run'.dag[n].last_error = "canceled"
          ELSE run'.dag[n] = dag[n]
    /\ \A n \in DOMAIN steps :
          IF steps[n].status \in {"pending", "running"}
          THEN /\ steps'[n].status = "canceled"
               /\ steps'[n].attempts = steps[n].attempts
          ELSE steps'[n] = steps[n]
    /\ run'.status = "canceled"
    /\ run'.ended
    /\ ~run'.cancel_requested

\* a finish with another status changes no node and no step row
KeepsWork(w) ==
    /\ run'.dag = wk[w].st.dag
    /\ steps' = steps
    /\ run'.status = FinishStatusOf(wk[w].st)

\* C32: a finish with status canceled turns every pending or running node of
\* the worker's DAG and every pending or running step row to canceled (the
\* node with last_error code canceled), leaves completed, failed and skipped
\* ones unchanged and stores status canceled, ended_at and cancel_requested
\* = 0; a finish with any other status changes no node or step status.
FinishClosesOnlyOnCancel ==
    [][\A w \in Workers : FinishNodeTick(w) =>
          /\ wk'[w].st.dag = run'.dag
          /\ IF FinishStatusOf(wk[w].st) = "canceled"
             THEN ClosesOpenWork(w) ELSE KeepsWork(w)]_vars

\* a canceled run with a completed node kept and an open node closed
CanceledWithCompletedNode ==
    /\ run.status = "canceled"
    /\ Last(events).type = "run_finished"
    /\ \E n, m \in DOMAIN run.dag :
          /\ run.dag[n].status = "completed"
          /\ steps[n].status = "completed"
          /\ run.dag[m].status = "canceled"
          /\ run.dag[m].last_error = "canceled"

\* the first run_finished or run_retry_requested event after position i, or
\* the end of the log
CancelWindowEnd(i) ==
    LET stop == {j \in (i + 1)..Len(events) :
                    events[j].type \in {"run_finished", "run_retry_requested"}}
    IN IF stop = {} THEN Len(events) + 1
       ELSE CHOOSE j \in stop : \A k \in stop : j <= k

\* the step_started events between position i and position j
StartsBetween(i, j) ==
    Cardinality({k \in (i + 1)..(j - 1) : events[k].type = "step_started"})

\* after a cancel request at most one attempt starts before the run finishes
\* or a retry_run takes the request back
StartsAfterCancelBounded ==
    \A i \in DOMAIN events :
        events[i].type = "cancel_requested" => StartsBetween(i, CancelWindowEnd(i)) <= 1

\* C33 as stated: no step_started event lies between a cancel request and the
\* run_finished that follows it.
NoStartAfterCancel ==
    \A i, j \in DOMAIN events :
        (/\ i < j
         /\ events[i].type = "cancel_requested"
         /\ events[j].type = "run_finished"
         /\ \A k \in (i + 1)..(j - 1) : events[k].type # "run_finished") =>
            StartsBetween(i, j) = 0

\* C33, amended: the worker's next monitor evaluation that finds the cancel
\* request stored decides canceled, so between the request and run_finished
\* (or the retry_run that clears the request) at most one step_started event
\* is emitted: that of the executor tick the monitor had already routed to.
CancelBoundedResponse == [][CancelSeen]_vars /\ []StartsAfterCancelBounded

\* a cancel request arrived between the monitor and the executor tick it had
\* routed to; that tick started its step and the run then finished canceled
CanceledAfterOneStart ==
    /\ run.status = "canceled"
    /\ Last(events).type = "run_finished"
    /\ \E i \in DOMAIN events :
          /\ events[i].type = "cancel_requested"
          /\ CancelWindowEnd(i) = Len(events)
          /\ StartsBetween(i, Len(events)) = 1

\* the exception of a node of worker w leaves ainvoke and is handled
ExceptionTick(w) == wk[w].pc = "raised" /\ OwnStep(w)

\* C34: when a loop node raises, the run is stored failed with ended_at set,
\* a diagnostic is recorded, exactly one run_finished event with reason
\* orchestrator_exception is emitted, and the run's entry leaves the worker
\* registry, so that a later start_run starts a new worker.
UnhandledErrorFinalizes ==
    [][\A w \in Workers : ExceptionTick(w) =>
          /\ run'.status = "failed"
          /\ run'.ended
          /\ Len(run'.diagnostics) > 0
          /\ Last(run'.diagnostics) = UnhandledDiagnostic(wk[w].st.error)
          /\ Len(events') = Len(events) + 1
          /\ Last(events') = Ev("run_finished", 0, 0, "failed", "orchestrator_exception")
          /\ wk'[w].pc = "done"
          /\ tasks' = 0
          /\ ~StartRunSkips(tasks', wk')
          /\ StartRun(tasks', wk')[1] # 0]_vars

\* a run that ended by an unhandled error got a new worker from a retry
RestartedAfterException ==
    \E i, j \in DOMAIN events :
        /\ i < j
        /\ events[i].type = "run_finished"
        /\ events[i].reason = "orchestrator_exception"
        /\ events[j].type = "run_started"

\* the finish reasons the monitor sets together with reflection_needed
MonitorFailureReasons ==
    {"timeout", "budget_exceeded", "dependency_deadlock", "steps_failed", "max_steps_exceeded"}

\* C35: when the monitor ends a run for timeout, budget_exceeded,
\* dependency_deadlock, steps_failed or max_steps_exceeded, reflection has run
\* in that worker loop and its diagnostic is in run.diagnostics by the time
\* run_finished is emitted.
MonitorFailureReflected ==
    (/\ Len(events) > 0
     /\ Last(events).type = "run_finished"
     /\ Last(events).reason \in MonitorFailureReasons) =>
        /\ \E i \in (LastStart + 1)..Len(events) :
              events[i].type = "reflection" /\ events[i].status = "terminated"
        /\ Len(run.diagnostics) > 0

\* the executor's announcing events and the status each one announces
StepEventTypes == {"step_started", "step_finished", "step_retry_scheduled", "step_failed"}

AnnouncedStatus(type) ==
    CASE type = "step_started" -> "running"
      [] type = "step_finished" -> "completed"
      [] type = "step_retry_scheduled" -> "pending"
      [] type = "step_failed" -> "failed"

\* every event id in a subscriber queue, or handed to the stream's client,
\* names a stored event
DeliveredAreStored ==
    /\ \A i \in DOMAIN subs : \A k \in DOMAIN subs[i] : subs[i][k] \in DOMAIN events
    /\ \A k \in DOMAIN sse.got : sse.got[k] \in DOMAIN events

\* the step that emits an executor event leaves the stored node and the
\* stored step row in the status the event announces
TickStoredBeforeAnnounced ==
    Len(events') > Len(events) =>
        LET e == events'[Len(events')]
        IN e.type \in StepEventTypes =>
              /\ run'.dag[e.node].status = AnnouncedStatus(e.type)
              /\ steps'[e.node].status = AnnouncedStatus(e.type)

\* C36: persist before publish. Every event delivered to a broker subscriber
\* is already in the stored events at delivery, and when an executor tick
\* emits step_started, step_finished, step_retry_scheduled or step_failed the
\* DAG and step row in the store already hold the change it announces.
PersistBeforePublish == []DeliveredAreStored /\ [][TickStoredBeforeAnnounced]_vars

\* a step_failed event sits in a subscriber's queue
FailureQueuedForSubscriber ==
    \E i \in DOMAIN subs : \E k \in DOMAIN subs[i] :
        /\ subs[i][k] \in DOMAIN events
        /\ events[subs[i][k]].type = "step_failed"
        /\ steps[events[subs[i][k]].node].status = "failed"

\* C37: run diagnostics only grow. Every diagnostic stored for the run is
\* still there, in the same place, after any later step of the program:
\* the stored list before a step is a prefix of the stored list after it.
DiagnosticsOnlyGrow ==
    [][run.status # "absent" =>
          /\ Len(run'.diagnostics) >= Len(run.diagnostics)
          /\ SubSeq(run'.diagnostics, 1, Len(run.diagnostics)) = run.diagnostics]_vars

\* the monitor's step of worker w that routes to execute_step
RoutesToExecute(w) == wk[w].pc = "monitor" /\ OwnStep(w) /\ wk'[w].pc = "execute"

\* C38: no idle spinning. Whenever the monitor routes to execute (neither
\* should_finish nor reflection_needed is set), the worker's DAG has a node
\* the executor can run: a pending node whose dependencies are all completed.
NoIdleSpinning ==
    [][\A w \in Workers : RoutesToExecute(w) => HasRunnableNodes(wk'[w].st.dag)]_vars

\* no worker is inside a loop node: none waits for a model call, sleeps in
\* a backoff or is about to enter the except branch
BetweenLoopNodes ==
    \A w \in Workers : wk[w].pc \notin {"plan_call", "exec_call", "backoff", "raised"}

\* every step row has the status of its node in the stored DAG
RowsAgreeWithNodes ==
    \A n \in DOMAIN steps :
        steps[n].status # "absent" =>
            /\ n \in DOMAIN run.dag
            /\ steps[n].status = run.dag[n].status

\* C39: node/step agreement. At every boundary between loop nodes, each step
\* row's status equals the status of its node in the stored DAG.
NodeStepAgreement == (run.status # "absent" /\ BetweenLoopNodes) => RowsAgreeWithNodes

\* the sum of one column over cost-ledger rows
RECURSIVE LedgerColumnSum(_, _)
LedgerColumnSum(rows, column) ==
    IF rows = <<>> THEN 0
    ELSE Head(rows)[column] + LedgerColumnSum(Tail(rows), column)

\* the run totals are the column sums of the run's cost ledger
TotalsMatchLedger ==
    run.status # "absent" =>
        /\ run.total_tokens = LedgerColumnSum(ledger, "total_tokens")
        /\ run.total_prompt_tokens = LedgerColumnSum(ledger, "prompt_tokens")
        /\ run.total_completion_tokens = LedgerColumnSum(ledger, "completion_tokens")

RunTotals(r) ==
    <<r.total_prompt_tokens, r.total_completion_tokens, r.total_tokens, r.total_usd>>

\* a step changes the totals exactly when it inserts one ledger row, by that
\* row's amounts, and the row belongs to the planner's call or to a step that
\* the same step stores completed
TotalsChangeWithLedger ==
    run.status # "absent" =>
        /\ (RunTotals(run') # RunTotals(run)) <=> (ledger' # ledger)
        /\ ledger' # ledger =>
              /\ Len(ledger') = Len(ledger) + 1
              /\ SubSeq(ledger', 1, Len(ledger)) = ledger
              /\ LET row == Last(ledger')
                 IN /\ run'.total_prompt_tokens = run.total_prompt_tokens + row.prompt_tokens
                    /\ run'.total_completion_tokens
                          = run.total_completion_tokens + row.completion_tokens
                    /\ run'.total_tokens = run.total_tokens + row.total_tokens
                    /\ run'.total_usd = run.total_usd + row.usd
                    /\ \/ row.node = 0 /\ Last(events').type = "planning_finished"
                       \/ /\ row.node \in DOMAIN steps
                          /\ steps'[row.node].status = "completed"
                          /\ Last(events') = Ev("step_finished", row.node, 0, "none", "none")

\* a step that announces a failed or a retried attempt leaves the totals
FailedAttemptCostsNothing ==
    (\E e \in NewEvents : e.type \in {"step_retry_scheduled", "step_failed"}) =>
        /\ RunTotals(run') = RunTotals(run)
        /\ ledger' = ledger

\* C40: cost accounting agreement. The run totals change only together with
\* a cost-ledger insert, made for a planner call or a successful step and
\* never for a failed or retried attempt, and in every state the run's
\* total_tokens, total_prompt_tokens and total_completion_tokens equal the
\* sums of those columns over the run's cost-ledger rows.
CostAccountingAgreement ==
    /\ []TotalsMatchLedger
    /\ [][TotalsChangeWithLedger /\ FailedAttemptCostsNothing]_vars

\* the ledger holds the planner's row and a step's row, and an attempt of the
\* run was retried at no cost
PaidStepAfterFreeRetry ==
    /\ \E i, j \in DOMAIN ledger : ledger[i].node = 0 /\ ledger[j].node # 0
    /\ \E i \in DOMAIN events : events[i].type = "step_retry_scheduled"
    /\ run.total_tokens = LedgerColumnSum(ledger, "total_tokens")
    /\ run.total_tokens > 0

====
